---- MODULE Spec2Model ----
(***************************************************************************)
(* A model of the Search-Engine repository: the term-document indexer,     *)
(* the TF-IDF weighting and column normalisation, the query evaluator and  *)
(* the truncated SVD engine.  The repository holds two variants of the     *)
(* program (the two sides of the merge in backend/src/main.rs):            *)
(*   "upstream": util::tokenizer, util::idf, util::norm, util::search,     *)
(*               util::svd                                                  *)
(*   "stashed":  preprocessing::tokenizer, matrix::TfIdfMatrix,            *)
(*               engine::search                                             *)
(* Text is a sequence of one-character strings.  Real numbers are kept     *)
(* exactly as surds n / sqrt(d2) with integers n and d2 > 0; the natural   *)
(* logarithm is the only rounded function (a table in units of 10^-1).     *)
(***************************************************************************)
EXTENDS Integers, Sequences, FiniteSets, TLC

-----------------------------------------------------------------------------
(* Characters and strings *)

Lower == <<"a","b","c","d","e","f","g","h","i","j","k","l","m",
           "n","o","p","q","r","s","t","u","v","w","x","y","z">>

Upper == <<"A","B","C","D","E","F","G","H","I","J","K","L","M",
           "N","O","P","Q","R","S","T","U","V","W","X","Y","Z">>

Digits == <<"0","1","2","3","4","5","6","7","8","9">>

Range(s) == { s[i] : i \in 1..Len(s) }

IndexIn(s, c) == CHOOSE i \in 1..Len(s) : s[i] = c

IsLowerChar(c) == c \in Range(Lower)

IsUpperChar(c) == c \in Range(Upper)

IsDigitChar(c) == c \in Range(Digits)

\* char::is_alphabetic, on the ASCII characters of the model
IsAlphabetic(c) == IsLowerChar(c) \/ IsUpperChar(c)

IsAlphanumeric(c) == IsAlphabetic(c) \/ IsDigitChar(c)

IsWhitespace(c) == c = " "

\* the byte value of a character: the order of String comparison
CharCode(c) ==
    IF IsLowerChar(c) THEN 96 + IndexIn(Lower, c)
    ELSE IF IsUpperChar(c) THEN 64 + IndexIn(Upper, c)
    ELSE IF IsDigitChar(c) THEN 47 + IndexIn(Digits, c)
    ELSE IF c = " " THEN 32
    ELSE IF c = "," THEN 44
    ELSE IF c = "-" THEN 45
    ELSE 46

ToLowerChar(c) == IF IsUpperChar(c) THEN Lower[IndexIn(Upper, c)] ELSE c

\* str::to_lowercase
ToLowercase(s) == [i \in 1..Len(s) |-> ToLowerChar(s[i])]

\* Ord for String: byte-wise lexicographic, a proper prefix is smaller
RECURSIVE StrLessFrom(_, _, _)
StrLessFrom(a, b, i) ==
    IF i > Len(b) THEN FALSE
    ELSE IF i > Len(a) THEN TRUE
    ELSE IF CharCode(a[i]) < CharCode(b[i]) THEN TRUE
    ELSE IF CharCode(a[i]) > CharCode(b[i]) THEN FALSE
    ELSE StrLessFrom(a, b, i + 1)

StrLess(a, b) == StrLessFrom(a, b, 1)

\* slice::ends_with
EndsWith(word, suffix) ==
    /\ Len(suffix) <= Len(word)
    /\ \A i \in 1..Len(suffix) : word[Len(word) - Len(suffix) + i] = suffix[i]

DropLast(word, n) == SubSeq(word, 1, Len(word) - n)

-----------------------------------------------------------------------------
(* The Porter stemmer, stemer/porter_algorithm.rs.  Indices are 1-based.   *)

RECURSIVE is_vowel(_, _)
is_vowel(word, i) ==
    IF word[i] \in {"a", "e", "i", "o", "u"} THEN TRUE
    ELSE IF word[i] = "y" THEN i > 1 /\ ~is_vowel(word, i - 1)
    ELSE FALSE

\* the number of positions where a vowel is followed by a consonant
measure(word) ==
    Cardinality({ i \in 2..Len(word) : is_vowel(word, i - 1) /\ ~is_vowel(word, i) })

has_vowel(word) == \E i \in 1..Len(word) : is_vowel(word, i)

ends_with_cvc(word) ==
    /\ Len(word) >= 3
    /\ ~is_vowel(word, Len(word) - 2)
    /\ is_vowel(word, Len(word) - 1)
    /\ ~is_vowel(word, Len(word))
    /\ word[Len(word)] \notin {"w", "x", "y"}

\* replace_suffix: the word after the replacement (the caller tests EndsWith)
replace_suffix(word, suffix, replacement) ==
    IF EndsWith(word, suffix) THEN DropLast(word, Len(suffix)) \o replacement
    ELSE word

MeasureAbove0(stem) == measure(stem) > 0

MeasureAbove1(stem) == measure(stem) > 1

step_1a(word) ==
    IF EndsWith(word, <<"s","s","e","s">>) THEN replace_suffix(word, <<"s","s","e","s">>, <<"s","s">>)
    ELSE IF EndsWith(word, <<"i","e","s">>) THEN replace_suffix(word, <<"i","e","s">>, <<"i">>)
    ELSE IF EndsWith(word, <<"s","s">>) THEN word
    ELSE IF EndsWith(word, <<"s">>) /\ has_vowel(DropLast(word, 1)) THEN DropLast(word, 1)
    ELSE word

\* the tail of step_1b, run when "ed" or "ing" was removed
step_1b_fixup(word) ==
    IF EndsWith(word, <<"a","t">>) THEN word \o <<"e">>
    ELSE IF EndsWith(word, <<"b","l">>) THEN word \o <<"e">>
    ELSE IF EndsWith(word, <<"i","z">>) THEN word \o <<"e">>
    ELSE IF /\ Len(word) >= 2
            /\ word[Len(word)] = word[Len(word) - 1]
            /\ ~is_vowel(word, Len(word))
            /\ word[Len(word)] \notin {"l", "s", "z"}
         THEN DropLast(word, 1)
    ELSE IF measure(word) = 1 /\ ends_with_cvc(word) THEN word \o <<"e">>
    ELSE word

step_1b(word) ==
    IF EndsWith(word, <<"e","e","d">>) /\ MeasureAbove0(DropLast(word, 3))
    THEN DropLast(word, 1)
    ELSE IF EndsWith(word, <<"e","d">>) /\ has_vowel(DropLast(word, 2))
    THEN step_1b_fixup(DropLast(word, 2))
    ELSE IF EndsWith(word, <<"i","n","g">>) /\ has_vowel(DropLast(word, 3))
    THEN step_1b_fixup(DropLast(word, 3))
    ELSE word

step_1c(word) ==
    IF EndsWith(word, <<"y">>) /\ has_vowel(DropLast(word, 1))
    THEN DropLast(word, 1) \o <<"i">>
    ELSE word

Step2Suffixes ==
    << <<(<<"a","t","i","o","n","a","l">>), (<<"a","t","e">>)>>,
       <<(<<"t","i","o","n","a","l">>), (<<"t","i","o","n">>)>>,
       <<(<<"e","n","c","i">>), (<<"e","n","c","e">>)>>,
       <<(<<"a","n","c","i">>), (<<"a","n","c","e">>)>>,
       <<(<<"i","z","e","r">>), (<<"i","z","e">>)>>,
       <<(<<"a","b","l","i">>), (<<"a","b","l","e">>)>>,
       <<(<<"a","l","l","i">>), (<<"a","l">>)>>,
       <<(<<"e","n","t","l","i">>), (<<"e","n","t">>)>>,
       <<(<<"e","l","i">>), (<<"e">>)>>,
       <<(<<"o","u","s","l","i">>), (<<"o","u","s">>)>>,
       <<(<<"i","z","a","t","i","o","n">>), (<<"i","z","e">>)>>,
       <<(<<"a","t","i","o","n">>), (<<"a","t","e">>)>>,
       <<(<<"a","t","o","r">>), (<<"a","t","e">>)>>,
       <<(<<"a","l","i","s","m">>), (<<"a","l">>)>>,
       <<(<<"i","v","e","n","e","s","s">>), (<<"i","v","e">>)>>,
       <<(<<"f","u","l","n","e","s","s">>), (<<"f","u","l">>)>>,
       <<(<<"o","u","s","n","e","s","s">>), (<<"o","u","s">>)>>,
       <<(<<"a","l","i","t","i">>), (<<"a","l">>)>>,
       <<(<<"i","v","i","t","i">>), (<<"i","v","e">>)>>,
       <<(<<"b","i","l","i","t","i">>), (<<"b","l","e">>)>> >>

Step3Suffixes ==
    << <<(<<"i","c","a","t","e">>), (<<"i","c">>)>>,
       <<(<<"a","t","i","v","e">>), (<< >>)>>,
       <<(<<"a","l","i","z","e">>), (<<"a","l">>)>>,
       <<(<<"i","c","i","t","i">>), (<<"i","c">>)>>,
       <<(<<"i","c","a","l">>), (<<"i","c">>)>>,
       <<(<<"f","u","l">>), (<< >>)>>,
       <<(<<"n","e","s","s">>), (<< >>)>> >>

Step4Suffixes ==
    << <<"a","l">>, <<"a","n","c","e">>, <<"e","n","c","e">>, <<"e","r">>,
       <<"i","c">>, <<"a","b","l","e">>, <<"i","b","l","e">>, <<"a","n","t">>,
       <<"e","m","e","n","t">>, <<"m","e","n","t">>, <<"e","n","t">>,
       <<"o","u">>, <<"i","s","m">>, <<"a","t","e">>, <<"i","t","i">>,
       <<"o","u","s">>, <<"i","v","e">>, <<"i","z","e">> >>

\* replace_suffix_condition with the condition measure(stem) > bound
replace_suffix_condition(word, suffix, replacement, bound) ==
    EndsWith(word, suffix) /\ measure(DropLast(word, Len(suffix))) > bound

\* the loop of step_2 and step_3: the first pair of the table, from index i,
\* whose suffix ends the word over a stem of measure > 0 is applied
RECURSIVE ApplyFirstPair(_, _, _)
ApplyFirstPair(word, table, i) ==
    IF i > Len(table) THEN word
    ELSE IF replace_suffix_condition(word, table[i][1], table[i][2], 0)
         THEN replace_suffix(word, table[i][1], table[i][2])
    ELSE ApplyFirstPair(word, table, i + 1)

step_2(word) == ApplyFirstPair(word, Step2Suffixes, 1)

step_3(word) == ApplyFirstPair(word, Step3Suffixes, 1)

\* the condition of the "ion" rule: `a || b && c` is a || (b && c)
IonCondition(stem) ==
    \/ EndsWith(stem, <<"s">>)
    \/ (EndsWith(stem, <<"t">>) /\ measure(stem) > 1)

RECURSIVE step_4_from(_, _)
step_4_from(word, i) ==
    IF i > Len(Step4Suffixes)
    THEN IF EndsWith(word, <<"i","o","n">>) /\ IonCondition(DropLast(word, 3))
         THEN DropLast(word, 3)
         ELSE word
    ELSE IF replace_suffix_condition(word, Step4Suffixes[i], << >>, 1)
         THEN DropLast(word, Len(Step4Suffixes[i]))
    ELSE step_4_from(word, i + 1)

step_4(word) == step_4_from(word, 1)

step_5a(word) ==
    IF EndsWith(word, <<"e">>)
    THEN LET stem == DropLast(word, 1)
             m == measure(stem)
         IN IF m > 1 \/ (m = 1 /\ ~ends_with_cvc(stem)) THEN stem ELSE word
    ELSE word

step_5b(word) ==
    IF measure(word) > 1 /\ EndsWith(word, <<"l","l">>) THEN DropLast(word, 1) ELSE word

porter_stem(w) ==
    LET word == ToLowercase(w)
    IN IF Len(word) <= 2 THEN word
       ELSE step_5b(step_5a(step_4(step_3(step_2(step_1c(step_1b(step_1a(word))))))))

-----------------------------------------------------------------------------
(* Tokenisation *)

\* the character classes of the two regular expressions
InClass(kind, c) ==
    IF kind = "alnum" THEN IsAlphanumeric(c)
    ELSE IF kind = "alpha" THEN IsAlphabetic(c)
    ELSE ~IsWhitespace(c)

\* the maximal runs of characters of a class, left to right
RECURSIVE RunsFrom(_, _, _, _)
RunsFrom(text, kind, i, cur) ==
    IF i > Len(text) THEN (IF cur = << >> THEN << >> ELSE <<cur>>)
    ELSE IF InClass(kind, text[i]) THEN RunsFrom(text, kind, i + 1, Append(cur, text[i]))
    ELSE (IF cur = << >> THEN << >> ELSE <<cur>>) \o RunsFrom(text, kind, i + 1, << >>)

Runs(text, kind) == RunsFrom(text, kind, 1, << >>)

MapSeq(s, Op(_)) == [i \in 1..Len(s) |-> Op(s[i])]

RECURSIVE Flatten(_)
Flatten(ss) == IF ss = << >> THEN << >> ELSE Head(ss) \o Flatten(Tail(ss))

Count(s, x) == Cardinality({ i \in 1..Len(s) : s[i] = x })

\* util::tokenizer::tokenize: split on [^a-zA-Z0-9]+, keep the pieces longer
\* than two characters, lower-case them
tokenize(text) ==
    MapSeq(SelectSeq(Runs(text, "alnum"), LAMBDA s : Len(s) > 2), ToLowercase)

\* str::trim_matches(|c| !c.is_alphabetic())
trim_matches(tok) ==
    LET idx == { i \in 1..Len(tok) : IsAlphabetic(tok[i]) }
    IN IF idx = {} THEN << >>
       ELSE SubSeq(tok, CHOOSE i \in idx : \A j \in idx : i <= j,
                        CHOOSE i \in idx : \A j \in idx : i >= j)

\* the token iterator of TfIdfMatrix::build and engine::search::search:
\* lower-case, split on whitespace, trim the non-alphabetic ends
split_trim(text) == MapSeq(Runs(ToLowercase(text), "nonspace"), trim_matches)

\* format!("{} {}", doc.title, doc.text)
full_text(doc) == doc.title \o <<" ">> \o doc.text

-----------------------------------------------------------------------------
(* Numbers.  A surd [n, d2] is the real number n / sqrt(d2), d2 > 0.       *)

Surd(n, d2) == [n |-> n, d2 |-> d2]

SurdZero == Surd(0, 1)

SurdOfInt(c) == Surd(c, 1)

Abs(i) == IF i < 0 THEN -i ELSE i

\* p1 / q1 < p2 / q2 for p >= 0, q > 0, by Euclid's algorithm (no products)
RECURSIVE RatLess(_, _, _, _)
RatLess(p1, q1, p2, q2) ==
    IF p1 \div q1 # p2 \div q2 THEN p1 \div q1 < p2 \div q2
    ELSE IF p1 % q1 = 0 THEN p2 % q2 > 0
    ELSE IF p2 % q2 = 0 THEN FALSE
    ELSE RatLess(q2, p2 % q2, q1, p1 % q1)

\* a < b as real numbers: the squares n^2 / d2 are compared, by sign
SurdLess(a, b) ==
    IF a.n < 0 /\ b.n >= 0 THEN TRUE
    ELSE IF a.n >= 0 /\ b.n < 0 THEN FALSE
    ELSE IF a.n >= 0 THEN RatLess(a.n * a.n, a.d2, b.n * b.n, b.d2)
    ELSE RatLess(b.n * b.n, b.d2, a.n * a.n, a.d2)

SurdEq(a, b) == ~SurdLess(a, b) /\ ~SurdLess(b, a)

SurdAbs(a) == Surd(Abs(a.n), a.d2)

SurdMul(a, b) == Surd(a.n * b.n, a.d2 * b.d2)

\* a + b for summands over the same root (or a zero summand)
SurdAdd(a, b) ==
    IF a.n = 0 THEN b
    ELSE IF b.n = 0 THEN a
    ELSE Surd(a.n + b.n, a.d2)

\* the sum of f[x] over the finite set S
RECURSIVE SumOver(_, _)
SumOver(S, f) ==
    IF S = {} THEN 0
    ELSE LET x == CHOOSE y \in S : TRUE IN f[x] + SumOver(S \ {x}, f)

\* the natural logarithm of 1..8 in units of 10^-1
LnTenths == <<0, 7, 11, 14, 16, 18, 19, 21>>

\* (n as f64 / d as f64).ln() in units of 10^-1, 1 <= d <= n
ln_ratio(n, d) == LnTenths[n] - LnTenths[d]

-----------------------------------------------------------------------------
(* The corpus *)

\* the largest number of documents of a corpus
MaxDocs == 2

\* "Cats and dogs"
TextCatsAndDogs == <<"C","a","t","s"," ","a","n","d"," ","d","o","g","s">>

\* "Dogs bark"
TextDogsBark == <<"D","o","g","s"," ","b","a","r","k">>

\* "cat, x2y dogs99 an"
TextMixed == <<"c","a","t",","," ","x","2","y"," ","d","o","g","s","9","9"," ","a","n">>

Document(id, title, text) == [id |-> id, title |-> title, text |-> text]

\* the rows the articles table may hold
DocPool ==
    { Document(1, << >>, TextCatsAndDogs),
      Document(2, << >>, TextDogsBark),
      Document(3, <<"c","a","t">>, TextMixed),
      Document(4, << >>, << >>),
      Document(5, <<"d","o","g">>, <<"d","o","g","s">>) }

Corpora == UNION { [1..n -> DocPool] : n \in 0..MaxDocs }

\* the stop-word file read, or the empty set when it cannot be read
StopWordSets == { { <<"a","n","d">> }, {} }

EmptyMap == [x \in {} |-> 0]

\* a sparse matrix: the stored positions (row, column), 0-based, and their values
SparseMatrix(nrows, ncols, entries) == [nrows |-> nrows, ncols |-> ncols, entries |-> entries]

EmptyMatrix == SparseMatrix(0, 0, EmptyMap)

RowEntries(m, i) == { p \in DOMAIN m.entries : p[1] = i }

ColEntries(m, j) == { p \in DOMAIN m.entries : p[2] = j }

\* the sum of the squares of the stored values of column j, as num / den
ColNormSq(m, j) ==
    LET ps == ColEntries(m, j)
    IN IF ps = {} THEN [num |-> 0, den |-> 1]
       ELSE [num |-> SumOver(ps, [p \in ps |-> m.entries[p].n * m.entries[p].n]),
             den |-> m.entries[CHOOSE p \in ps : TRUE].d2]

\* x / sqrt(num / den)
SurdDivRoot(x, num, den) == Surd(x.n, (x.d2 * num) \div den)

-----------------------------------------------------------------------------
(* The upstream indexer: util::tokenizer, util::idf, util::norm *)

\* the stems of one document, in order: tokenize, skip stop words, stem
doc_stems(doc, sw) ==
    MapSeq(SelectSeq(tokenize(doc.text), LAMBDA t : ToLowercase(t) \notin sw), porter_stem)

RECURSIVE Dedup(_, _)
Dedup(s, acc) ==
    IF s = << >> THEN acc
    ELSE IF Head(s) \in Range(acc) THEN Dedup(Tail(s), acc)
    ELSE Dedup(Tail(s), Append(acc, Head(s)))

\* build_term_document_matrix, first loop: a term gets the next free index
\* the first time it is seen
first_seen_dict(docs, sw) ==
    LET order == Dedup(Flatten([j \in 1..Len(docs) |-> doc_stems(docs[j], sw)]), << >>)
    IN [t \in Range(order) |-> IndexIn(order, t) - 1]

InverseOf(dict) == [i \in { dict[t] : t \in DOMAIN dict } |-> CHOOSE t \in DOMAIN dict : dict[t] = i]

\* build_term_document_matrix, second loop: the counts of the terms of each document
count_matrix(docs, sw, dict) ==
    LET stems == [j \in 1..Len(docs) |-> doc_stems(docs[j], sw)]
        inv == InverseOf(dict)
        dom == UNION { { <<dict[t], j - 1>> : t \in Range(stems[j]) \cap DOMAIN dict }
                       : j \in 1..Len(docs) }
    IN SparseMatrix(Cardinality(DOMAIN dict), Len(docs),
                    [p \in dom |-> SurdOfInt(Count(stems[p[2] + 1], inv[p[1]]))])

\* calculate_idf: doc_count of a row is the number of distinct columns stored in it
doc_count(m, i) == Cardinality({ p[2] : p \in RowEntries(m, i) })

\* a smoothed idf, ln((N + 1) / df)
idf_of_smoothed(n_docs, d) == IF d > 0 THEN ln_ratio(n_docs + 1, d) ELSE 0

idf_of(n_docs, d) == IF d > 0 THEN ln_ratio(n_docs, d) ELSE 0

calculate_idf(m) == [i \in 0..(m.nrows - 1) |-> idf_of(m.ncols, doc_count(m, i))]

\* apply_idf_weighting: every stored value times the idf of its row
apply_idf_weighting(m, w) ==
    SparseMatrix(m.nrows, m.ncols,
                 [p \in DOMAIN m.entries |-> Surd(m.entries[p].n * w[p[1]], m.entries[p].d2)])

\* a normalisation that leaves the columns as they are
normalize_columns_skipped(m) == m

\* normalize_columns: the entries of a column of norm > 0 are divided by the
\* norm, the entries of the other columns are not stored again
normalize_columns(m) ==
    LET sq == [j \in 0..(m.ncols - 1) |-> ColNormSq(m, j)]
        keep == { p \in DOMAIN m.entries : sq[p[2]].num > 0 }
    IN SparseMatrix(m.nrows, m.ncols,
                    [p \in keep |-> SurdDivRoot(m.entries[p], sq[p[2]].num, sq[p[2]].den)])

-----------------------------------------------------------------------------
(* The stashed indexer: preprocessing::tokenizer, matrix::TfIdfMatrix *)

\* build_vocabulary: the stems of the letter runs that are not stop words
vocabulary_terms(docs, sw) ==
    UNION { { porter_stem(w) : w \in Range(Runs(ToLowercase(full_text(docs[j])), "alpha")) \ sw }
            : j \in 1..Len(docs) }

\* terms.into_iter().collect(): the terms in the order the HashSet yields
\* them, which is any order
HashOrders(terms) ==
    { order \in [1..Cardinality(terms) -> terms] : Range(order) = terms }

RECURSIVE insert_string(_, _)
insert_string(sorted, x) ==
    IF sorted = << >> THEN <<x>>
    ELSE IF StrLess(x, Head(sorted)) THEN <<x>> \o sorted
    ELSE <<Head(sorted)>> \o insert_string(Tail(sorted), x)

RECURSIVE sort_from(_, _, _)
sort_from(list, i, acc) ==
    IF i > Len(list) THEN acc ELSE sort_from(list, i + 1, insert_string(acc, list[i]))

\* a list left in the order it has
unsorted(list) == list

\* term_list.sort()
sort(list) == sort_from(list, 1, << >>)

\* build_vocabulary for one iteration order of the HashSet: the list is
\* sorted and enumerated
build_vocabulary_in(order) ==
    LET term_list == sort(order)
    IN [t \in Range(term_list) |-> IndexIn(term_list, t) - 1]

\* term_list.sort() and enumerate(): the index of a term is its rank
build_vocabulary(docs, sw) ==
    LET terms == vocabulary_terms(docs, sw)
    IN [t \in terms |-> Cardinality({ s \in terms : StrLess(s, t) })]

\* TfIdfMatrix::build: the tokens of a document that are keys of `terms`
build_tokens(doc, terms) ==
    SelectSeq(split_trim(full_text(doc)), LAMBDA t : t # << >> /\ t \in DOMAIN terms)

build_df(docs, terms) ==
    [i \in 0..(Cardinality(DOMAIN terms) - 1) |->
        Cardinality({ j \in 1..Len(docs) :
                        \E t \in Range(build_tokens(docs[j], terms)) : terms[t] = i })]

\* the ratio upside down: ln(df / N), at most 0
build_idf_inverted(docs, terms) ==
    [i \in DOMAIN build_df(docs, terms) |->
        IF build_df(docs, terms)[i] = 0 THEN 0
        ELSE 0 - ln_ratio(Len(docs), build_df(docs, terms)[i])]

build_idf(docs, terms) ==
    LET d == build_df(docs, terms)
    IN [i \in DOMAIN d |-> IF d[i] = 0 THEN 0 ELSE ln_ratio(Len(docs), d[i])]

\* the triplets (term, document, tf * idf) with tf = count / total_terms
build_triplets(docs, terms) ==
    LET toks == [j \in 1..Len(docs) |-> build_tokens(docs[j], terms)]
        w == build_idf(docs, terms)
        dom == UNION { { <<terms[t], j - 1>> : t \in Range(toks[j]) } : j \in 1..Len(docs) }
        inv == InverseOf(terms)
    IN SparseMatrix(Cardinality(DOMAIN terms), Len(docs),
                    [p \in dom |-> Surd(Count(toks[p[2] + 1], inv[p[1]]) * w[p[1]],
                                        Len(toks[p[2] + 1]) * Len(toks[p[2] + 1]))])

\* the column loop at the end of build: a column of norm > 0 is divided by its norm
build_normalize(m) ==
    LET sq == [j \in 0..(m.ncols - 1) |-> ColNormSq(m, j)]
    IN SparseMatrix(m.nrows, m.ncols,
                    [p \in DOMAIN m.entries |->
                        IF sq[p[2]].num > 0
                        THEN SurdDivRoot(m.entries[p], sq[p[2]].num, sq[p[2]].den)
                        ELSE m.entries[p]])

-----------------------------------------------------------------------------
(* Dense matrices and the SVD artefact *)

\* a DMatrix: e[<<i, j>>] for 0 <= i < nrows, 0 <= j < ncols
DMatrix(nrows, ncols, e) == [nrows |-> nrows, ncols |-> ncols, e |-> e]

\* serialize_matrix: m.iter() walks the matrix column by column
serialize_matrix(m) ==
    [nrows |-> m.nrows, ncols |-> m.ncols,
     data |-> [x \in 1..(m.nrows * m.ncols) |-> m.e[<<(x - 1) % m.nrows, (x - 1) \div m.nrows>>]]]

\* DMatrix::from_row_slice: the slice is read row by row
from_row_slice(nrows, ncols, data) ==
    DMatrix(nrows, ncols,
            [p \in (0..(nrows - 1)) \X (0..(ncols - 1)) |-> data[p[1] * ncols + p[2] + 1]])

deserialize_matrix(ser) == from_row_slice(ser.nrows, ser.ncols, ser.data)

\* DMatrix::columns(0, k) and DMatrix::rows(0, k)
columns(m, k) == DMatrix(m.nrows, k, [p \in (0..(m.nrows - 1)) \X (0..(k - 1)) |-> m.e[p]])

rows(m, k) == DMatrix(k, m.ncols, [p \in (0..(k - 1)) \X (0..(m.ncols - 1)) |-> m.e[p]])

\* perform_svd, after sparse_svd returned (u, sigma, vt): the document
\* vectors sigma[i] * vt[i, j], stored as an n_docs x k matrix
perform_svd_data(u, sigma, vt) ==
    LET actual_k == Len(sigma)
        doc_vectors == DMatrix(vt.ncols, actual_k,
                               [p \in (0..(vt.ncols - 1)) \X (0..(actual_k - 1)) |->
                                   sigma[p[2] + 1] * vt.e[<<p[2], p[1]>>]])
    IN [rank |-> actual_k, sigma_k |-> sigma,
        u_ser |-> serialize_matrix(u),
        vt_ser |-> serialize_matrix(vt),
        docs_ser |-> serialize_matrix(doc_vectors)]

NoSvd == [rank |-> 0, sigma_k |-> << >>,
          u_ser |-> [nrows |-> 0, ncols |-> 0, data |-> << >>],
          vt_ser |-> [nrows |-> 0, ncols |-> 0, data |-> << >>],
          docs_ser |-> [nrows |-> 0, ncols |-> 0, data |-> << >>]]

\* the rank main asks for, and the rank the low-rank mode filters to
SvdRankK == 25

Min(a, b) == IF a <= b THEN a ELSE b

\* a triple (u, sigma, vt) of rank r for a V x N matrix: the columns of u and
\* the rows of vt are unit vectors along the axes, sigma descends from r to 1;
\* with `flip` the columns of u run along the last axes
axis_triple(V, N, r, flip) ==
    [u |-> DMatrix(V, r, [p \in (0..(V - 1)) \X (0..(r - 1)) |->
                             IF (IF flip THEN V - 1 - p[1] ELSE p[1]) = p[2] THEN 1 ELSE 0]),
     sigma |-> [c \in 1..r |-> r - c + 1],
     vt |-> DMatrix(r, N, [p \in (0..(r - 1)) \X (0..(N - 1)) |-> IF p[1] = p[2] THEN 1 ELSE 0])]

-----------------------------------------------------------------------------
(* The query evaluator *)

\* a sort that is not stable: a pair is put before the pairs of equal score
RECURSIVE insert_desc_unstable(_, _)
insert_desc_unstable(sorted, x) ==
    IF sorted = << >> THEN <<x>>
    ELSE IF ~SurdLess(x.score, Head(sorted).score) THEN <<x>> \o sorted
    ELSE <<Head(sorted)>> \o insert_desc_unstable(Tail(sorted), x)

\* the stable sort of (document, score) pairs by score, descending:
\* Vec::sort_by with |a, b| b.1.partial_cmp(&a.1)
RECURSIVE insert_desc(_, _)
insert_desc(sorted, x) ==
    IF sorted = << >> THEN <<x>>
    ELSE IF SurdLess(Head(sorted).score, x.score) THEN <<x>> \o sorted
    ELSE <<Head(sorted)>> \o insert_desc(Tail(sorted), x)

RECURSIVE sort_desc_from(_, _, _)
sort_desc_from(s, i, acc) ==
    IF i > Len(s) THEN acc ELSE sort_desc_from(s, i + 1, insert_desc(acc, s[i]))

sort_desc(s) == sort_desc_from(s, 1, << >>)

\* Iterator::take(k) and Vec::truncate(k)
take(s, k) == SubSeq(s, 1, Min(k, Len(s)))

Scored(doc, score) == [doc |-> doc, score |-> score]

\* a vector of surds over one root: the sum of its squared numerators
SumSq(v) == SumOver(DOMAIN v, [i \in DOMAIN v |-> v[i].n * v[i].n])

\* create_query_vector: the counts of the query tokens that are keys of
\* term_dict, times idf, divided by the norm when the norm is > 0
create_query_vector(query_text, dict, w) ==
    LET tokens == tokenize(query_text)
        inv == InverseOf(dict)
        raw == [i \in 0..(Cardinality(DOMAIN dict) - 1) |-> Count(tokens, inv[i]) * w[i]]
        norm_sq == SumOver(DOMAIN raw, [i \in DOMAIN raw |-> raw[i] * raw[i]])
    IN [i \in DOMAIN raw |-> IF norm_sq > 0 THEN Surd(raw[i], norm_sq) ELSE Surd(raw[i], 1)]

\* the sum over a set of products, all over one root
SurdSum(ps, term) ==
    LET nz == { p \in ps : term[p].n # 0 }
    IN IF nz = {} THEN SurdZero
       ELSE Surd(SumOver(nz, [p \in nz |-> term[p].n]), term[CHOOSE p \in nz : TRUE].d2)

\* what a search returns: how it ended, the `similarities` vector as it was
\* filled (before the sort), and the list handed back
Outcome(status, similarities, results) ==
    [status |-> status, similarities |-> similarities, results |-> results]

\* the sort and the cut every mode ends with
ranked(similarities, top_k) == Outcome("ok", similarities, take(sort_desc(similarities), top_k))

\* calculate_similarity: a score for every column, in column order
calculate_similarity(qv, m) ==
    LET score(j) ==
            LET ps == { p \in ColEntries(m, j) : qv[p[1]].n # 0 }
            IN SurdSum(ps, [p \in ps |-> SurdMul(qv[p[1]], m.entries[p])])
    IN [x \in 1..m.ncols |-> Scored(x - 1, score(x - 1))]

\* util::search::search
search_tfidf(qv, m, top_k) == ranked(calculate_similarity(qv, m), top_k)

\* u^T * query_vec: the numerators; the root is that of query_vec
project_query(u, qv) ==
    [c \in 0..(u.ncols - 1) |->
        SumOver(0..(u.nrows - 1), [t \in 0..(u.nrows - 1) |-> u.e[<<t, c>>] * qv[t].n])]

column(m, j) == [i \in 0..(m.nrows - 1) |-> m.e[<<i, j>>]]

DotInt(a, b) == SumOver(DOMAIN a, [i \in DOMAIN a |-> a[i] * b[i]])

\* the cosine of two integer vectors of one dimension
cosine(a, b) == Surd(DotInt(a, b), DotInt(a, a) * DotInt(b, b))

\* calculate_similarity_svd and search_svd; DVector::dot panics when the
\* dimensions of its operands differ
search_svd(qv, svd, top_k) ==
    LET u_k == from_row_slice(svd.u_ser.nrows, svd.u_ser.ncols, svd.u_ser.data)
        doc_vecs == from_row_slice(svd.docs_ser.nrows, svd.docs_ser.ncols, svd.docs_ser.data)
        num_docs == doc_vecs.ncols
        query_lsi == project_query(u_k, qv)
        query_nonzero == DotInt(query_lsi, query_lsi) > 0
        doc_nonzero(j) == DotInt(column(doc_vecs, j), column(doc_vecs, j)) > 0
        dots == { j \in 0..(num_docs - 1) : query_nonzero /\ doc_nonzero(j) }
        sim(j) == IF j \in dots THEN cosine(query_lsi, column(doc_vecs, j)) ELSE SurdZero
    IN IF dots # {} /\ doc_vecs.nrows # u_k.ncols
       THEN Outcome("panic", << >>, << >>)
       ELSE ranked([x \in 1..num_docs |-> Scored(x - 1, sim(x - 1))], top_k)

\* calculate_similarity_low_rank_optimized and search_with_low_rank
search_with_low_rank(qv, svd, reduced_k, top_k) ==
    LET effective_k == Min(reduced_k, svd.rank)
        u_k == columns(deserialize_matrix(svd.u_ser), effective_k)
        doc_vecs == rows(deserialize_matrix(svd.docs_ser), effective_k)
        num_docs == doc_vecs.ncols
        query_lsi == project_query(u_k, qv)
        sim(j) == IF DotInt(column(doc_vecs, j), column(doc_vecs, j)) > 0
                  THEN cosine(query_lsi, column(doc_vecs, j))
                  ELSE SurdZero
    IN IF DotInt(query_lsi, query_lsi) > 0
       THEN ranked([x \in 1..num_docs |-> Scored(x - 1, sim(x - 1))], top_k)
       ELSE Outcome("ok", << >>, << >>)

\* engine::search::search, the query vector: tf * idf of the query tokens that
\* are keys of `terms`, divided by the norm when the norm is > 0
engine_query_vector(query_text, terms, w) ==
    LET tokens == SelectSeq(split_trim(query_text), LAMBDA t : t \in DOMAIN terms)
        inv == InverseOf(terms)
        hit == { terms[t] : t \in Range(tokens) }
        raw == [i \in hit |-> Count(tokens, inv[i]) * w[i]]
        norm_sq == SumOver(hit, [i \in hit |-> raw[i] * raw[i]])
    IN [i \in hit |-> IF norm_sq > 0 THEN Surd(raw[i], norm_sq)
                      ELSE Surd(raw[i], Len(tokens) * Len(tokens))]

\* engine::search::search, the scores: |q . column| for every document, the
\* stable sort, truncate(k)
engine_search(qv, m, k) ==
    LET score(j) ==
            LET ps == { p \in ColEntries(m, j) : p[1] \in DOMAIN qv }
            IN SurdAbs(SurdSum(ps, [p \in ps |-> SurdMul(qv[p[1]], m.entries[p])]))
    IN ranked([x \in 1..m.ncols |-> Scored(x - 1, score(x - 1))], k)

-----------------------------------------------------------------------------
(* The program: build the index, then answer search requests *)

VARIABLES
    variant,            \* which main runs: "upstream" or "stashed"
    documents,          \* the rows read from the articles table
    stop_words,         \* the stop-word set
    pc,                 \* the position of main
    term_dict,          \* term -> index (PreprocessedData.term_dict, TfIdfMatrix.terms)
    inverse_term_dict,  \* index -> term
    df,                 \* the document frequency of each term index
    idf,                \* the idf of each term index, in units of 10^-1
    matrix,             \* the term-document matrix (term_doc_csr, TfIdfMatrix.matrix)
    svd_data,           \* AppState.svd_data
    request,            \* the last search request
    query_vec,          \* the query vector of the last request
    similarities,       \* the (document, score) pairs of the last request, before the sort
    response            \* the response to the last request

\* one call of the SVD engine: util::svd::sparse_svd (upstream),
\* TfIdfMatrix::compute_svd (stashed)
VARIABLES
    svd_pc,             \* the position of the call
    a_op,               \* the matrix behind matrix_op and transpose_op
    nrows,              \* its number of rows
    ncols,              \* its number of columns
    k_arg,              \* the argument k
    k_eff,              \* sparse_svd: k after `let k = k.min(...)`
    m_steps,            \* sparse_svd: m, the number of Lanczos steps
    i_loop,             \* the index of the running loop
    sigma,              \* the singular values, in units of the tolerance
    recovered,          \* sparse_svd: u and vt as the recovery loop left them
    u_cols,             \* the columns of u
    vt_rows             \* the rows of vt

\* the cache files on disk
VARIABLES
    files,              \* file name -> the values written to it, in order
    damaged             \* a file has been cut short or removed since it was written

VARIABLES
    handlers            \* the search handlers running at once: each one's position and locals

VARIABLES
    stem_input,         \* a word given to the stemmer
    stem_output         \* what porter_stem returned for it, and for what it returned

\* sparse_svd's Lanczos loop, vector by vector
VARIABLES
    q_vecs,             \* q[0..=i], the Lanczos vectors made so far
    alpha               \* alpha[0..i], the diagonal of t

\* one call of TfIdfMatrix::low_rank_approximation
VARIABLES
    svd_in,             \* its arguments: the decomposition and the size of self.matrix
    approx              \* what it built: the triplets summed, and the matrix returned

\* one call of step_4 of the stemmer
VARIABLES
    step_word,          \* the word it is given
    step_result         \* the word it leaves

\* a save of main that runs write by write
VARIABLES
    saving,             \* the files still to write and how far the save is
    interrupts          \* how many saves have been interrupted

\* one call of parse_cisi_documents
VARIABLES
    cisi_lines,         \* content.lines()
    parsed              \* the documents returned

\* the scraper (Frotend/src/scraper.rs): main and the tasks it spawns
VARIABLES
    main_pc,            \* where main is: "spawning", "joining", "done"
    spawned,            \* the number of tasks spawned so far (i of the loop)
    task_pc,            \* where each task is
    task_article,       \* the url of the article each task scraped, "" for none
    saved_this_task,    \* the local of each task, its return value
    permits,            \* the permits the semaphore has left
    waiters,            \* the tasks waiting in acquire_owned, oldest first
    holders,            \* the tasks that own a permit
    acquired,           \* how many permits each task was given so far
    counted,            \* how many times each task incremented completed
    completed,          \* progress.completed
    saved,              \* progress.saved
    articles,           \* the urls in the table articles
    articles_saved_count \* the count main makes from the results

main_vars == <<variant, documents, stop_words, pc, term_dict, inverse_term_dict, df, idf,
               matrix, svd_data, request, query_vec, similarities, response>>

svd_vars == <<svd_pc, a_op, nrows, ncols, k_arg, k_eff, m_steps, i_loop, sigma, recovered,
              u_cols, vt_rows>>

store_vars == <<files, damaged>>

handler_vars == <<handlers>>

stem_vars == <<stem_input, stem_output>>

lanczos_vars == <<q_vecs, alpha>>

approx_vars == <<svd_in, approx>>

step_vars == <<step_word, step_result>>

save_vars == <<saving, interrupts>>

parser_vars == <<cisi_lines, parsed>>

scraper_vars == <<main_pc, spawned, task_pc, task_article, saved_this_task, permits, waiters,
                  holders, acquired, counted, completed, saved, articles,
                  articles_saved_count>>

side_vars == <<lanczos_vars, approx_vars, step_vars, save_vars, parser_vars, scraper_vars>>

\* the parts other than the Lanczos vectors
lanczos_rest == <<approx_vars, step_vars, save_vars, parser_vars, scraper_vars>>

\* the parts other than the low-rank approximation
approx_rest == <<lanczos_vars, step_vars, save_vars, parser_vars, scraper_vars>>

\* the parts other than step_4
step_rest == <<lanczos_vars, approx_vars, save_vars, parser_vars, scraper_vars>>

\* the parts other than the save
save_rest == <<lanczos_vars, approx_vars, step_vars, parser_vars, scraper_vars>>

\* the parts other than the CISI parser
parser_rest == <<lanczos_vars, approx_vars, step_vars, save_vars, scraper_vars>>

scraper_rest == <<lanczos_vars, approx_vars, step_vars, save_vars, parser_vars>>

vars == <<main_vars, svd_vars, store_vars, handler_vars, stem_vars, side_vars>>

\* no word is with the stemmer
NoStemming == stem_input = << >> /\ stem_output = << >>

\* no Lanczos vector has been made
NoLanczosVectors == q_vecs = << >> /\ alpha = << >>

\* low_rank_approximation is not called
NoApproximation == svd_in = << >> /\ approx = << >>

\* step_4 is not called
NoStep == step_word = << >> /\ step_result = << >>

\* no save runs write by write
NoSave == saving = << >> /\ interrupts = 0

\* parse_cisi_documents is not called
NoParse == cisi_lines = << >> /\ parsed = << >>

\* the number of articles to scrape, scaled down from 300000
NUM_ARTICLES == 4

\* the permits of the semaphore, scaled down from 10
CONCURRENT_REQUESTS == 2

\* task_index
Tasks == 1..NUM_ARTICLES

\* the scraper before main has created a task
ScraperAtStart ==
    /\ main_pc = "spawning"
    /\ spawned = 0
    /\ task_pc = [t \in Tasks |-> "unspawned"]
    /\ task_article = [t \in Tasks |-> ""]
    /\ saved_this_task = [t \in Tasks |-> FALSE]
    /\ permits = CONCURRENT_REQUESTS
    /\ waiters = << >>
    /\ holders = {}
    /\ acquired = [t \in Tasks |-> 0]
    /\ counted = [t \in Tasks |-> 0]
    /\ completed = 0
    /\ saved = 0
    /\ articles_saved_count = 0

NoScraper == ScraperAtStart /\ articles = {}

\* the parts followed step by step are all at rest
SideIdle == NoLanczosVectors /\ NoApproximation /\ NoStep /\ NoSave /\ NoParse /\ NoScraper

\* the number of search handlers that run at once
MaxHandlers == 2

\* a search handler: its position, its request and its locals
Handler(at, req, qv, resp) ==
    [pc |-> at, request |-> req, query_vec |-> qv, response |-> resp]

NoHandlers ==
    [h \in 1..MaxHandlers |-> [pc |-> "idle", request |-> [query |-> << >>, method |-> 0, limit |-> 0],
                                query_vec |-> << >>, response |-> [status |-> "none", results |-> << >>]]]

\* no cache file exists
NoFiles == [name \in {} |-> << >>]

\* no call of the SVD engine is modelled
SvdIdle ==
    /\ svd_pc = "idle"
    /\ a_op = << >>
    /\ nrows = 0 /\ ncols = 0 /\ k_arg = 0 /\ k_eff = 0 /\ m_steps = 0 /\ i_loop = 0
    /\ sigma = << >>
    /\ recovered = [u |-> << >>, vt |-> << >>]
    /\ u_cols = << >> /\ vt_rows = << >>

index_vars == <<term_dict, inverse_term_dict, df, idf, matrix, svd_data>>

\* "cats"
QueryCats == <<"c","a","t","s">>

\* "cat bark"
QueryCatBark == <<"c","a","t"," ","b","a","r","k">>

\* "zebra 42"
QueryZebra == <<"z","e","b","r","a"," ","4","2">>

\* the query strings of the requests
Queries == { << >>, QueryCats, QueryCatBark, QueryZebra, TextDogsBark }

\* the values of `limit` in a request
Limits == {0, 1, 2}

\* the values of `method` in a request: 2 = TF-IDF, 3 = SVD/LSI, 4 = low-rank
Methods == {2, 3, 4, 5}

NoRequest == [query |-> << >>, method |-> 0, limit |-> 0]

NoResponse == [status |-> "none", results |-> << >>]

Init ==
    /\ variant \in {"upstream", "stashed"}
    /\ documents \in Corpora
    /\ stop_words \in StopWordSets
    /\ pc = "start"
    /\ term_dict = EmptyMap
    /\ inverse_term_dict = EmptyMap
    /\ df = EmptyMap
    /\ idf = EmptyMap
    /\ matrix = EmptyMatrix
    /\ svd_data = NoSvd
    /\ request = NoRequest
    /\ query_vec = EmptyMap
    /\ similarities = << >>
    /\ response = NoResponse
    /\ SvdIdle
    /\ files = NoFiles
    /\ damaged = FALSE
    /\ handlers = NoHandlers
    /\ NoStemming
    /\ SideIdle

\* main, upstream: util::tokenizer::build_term_document_matrix and CsrMatrix::from
BuildTermDocumentMatrix ==
    /\ UNCHANGED <<svd_vars, store_vars, handler_vars, stem_vars, side_vars>>
    /\ variant = "upstream" /\ pc = "start"
    /\ LET dict == first_seen_dict(documents, stop_words)
       IN /\ term_dict' = dict
          /\ inverse_term_dict' = InverseOf(dict)
          /\ matrix' = count_matrix(documents, stop_words, dict)
    /\ pc' = "counted"
    /\ UNCHANGED <<variant, documents, stop_words, df, idf, svd_data, request, query_vec, similarities, response>>

\* main, upstream: util::idf::calculate_idf
CalculateIdf ==
    /\ UNCHANGED <<svd_vars, store_vars, handler_vars, stem_vars, side_vars>>
    /\ variant = "upstream" /\ pc = "counted"
    /\ df' = [i \in 0..(matrix.nrows - 1) |-> doc_count(matrix, i)]
    /\ idf' = calculate_idf(matrix)
    /\ pc' = "idf"
    /\ UNCHANGED <<variant, documents, stop_words, term_dict, inverse_term_dict, matrix,
                   svd_data, request, query_vec, similarities, response>>

\* main, upstream: util::idf::apply_idf_weighting
ApplyIdfWeighting ==
    /\ UNCHANGED <<svd_vars, store_vars, handler_vars, stem_vars, side_vars>>
    /\ variant = "upstream" /\ pc = "idf"
    /\ matrix' = apply_idf_weighting(matrix, idf)
    /\ pc' = "weighted"
    /\ UNCHANGED <<variant, documents, stop_words, term_dict, inverse_term_dict, df, idf,
                   svd_data, request, query_vec, similarities, response>>

\* main, upstream: util::norm::normalize_columns
NormalizeColumns ==
    /\ UNCHANGED <<svd_vars, store_vars, handler_vars, stem_vars, side_vars>>
    /\ variant = "upstream" /\ pc = "weighted"
    /\ matrix' = normalize_columns(matrix)
    /\ pc' = "normalized"
    /\ UNCHANGED <<variant, documents, stop_words, term_dict, inverse_term_dict, df, idf,
                   svd_data, request, query_vec, similarities, response>>

\* main, upstream: the SVD artefact of rank k' <= min(k, V, N) is loaded from
\* svd_k25.idx or computed by perform_svd, and the server starts
LoadOrPerformSvd ==
    /\ UNCHANGED <<svd_vars, store_vars, handler_vars, stem_vars, side_vars>>
    /\ variant = "upstream" /\ pc = "normalized"
    /\ \E r \in 1..Min(SvdRankK, Min(matrix.nrows, matrix.ncols)), flip \in BOOLEAN :
          LET t == axis_triple(matrix.nrows, matrix.ncols, r, flip)
          IN svd_data' = perform_svd_data(t.u, t.sigma, t.vt)
    /\ pc' = "serving"
    /\ UNCHANGED <<variant, documents, stop_words, term_dict, inverse_term_dict, df, idf,
                   matrix, request, query_vec, similarities, response>>

\* main, upstream: perform_svd returns Err and main returns it
SvdFails ==
    /\ UNCHANGED <<svd_vars, store_vars, handler_vars, stem_vars, side_vars>>
    /\ variant = "upstream" /\ pc = "normalized"
    /\ pc' = "failed"
    /\ UNCHANGED <<variant, documents, stop_words, index_vars, request, query_vec, similarities, response>>

\* search_handler: one request, answered from the index
SearchHandler ==
    /\ UNCHANGED <<svd_vars, store_vars, handler_vars, stem_vars, side_vars>>
    /\ variant = "upstream" /\ pc = "serving"
    /\ pc' = "answered"
    /\ \E q \in Queries, method \in Methods, top_k \in Limits :
          LET qv == create_query_vector(q, term_dict, idf)
              out == IF method = 2 THEN search_tfidf(qv, matrix, top_k)
                     ELSE IF method = 3 THEN search_svd(qv, svd_data, top_k)
                     ELSE IF method = 4
                          THEN search_with_low_rank(qv, svd_data, SvdRankK, top_k)
                     ELSE Outcome("bad_request", << >>, << >>)
          IN /\ request' = [query |-> q, method |-> method, limit |-> top_k]
             /\ query_vec' = IF method \in {2, 3, 4} THEN qv ELSE EmptyMap
             /\ similarities' = out.similarities
             /\ response' = [status |-> out.status, results |-> out.results]
    /\ UNCHANGED <<variant, documents, stop_words, index_vars>>

\* main, stashed: preprocessing::tokenizer::build_vocabulary
BuildVocabulary ==
    /\ UNCHANGED <<svd_vars, store_vars, handler_vars, stem_vars, side_vars>>
    /\ variant = "stashed" /\ pc = "start"
    /\ \E order \in HashOrders(vocabulary_terms(documents, stop_words)) :
       \E terms \in {build_vocabulary_in(order)} :
          /\ term_dict' = terms
          /\ inverse_term_dict' = InverseOf(terms)
    /\ pc' = "vocabulary"
    /\ UNCHANGED <<variant, documents, stop_words, df, idf, matrix, svd_data,
                   request, query_vec, similarities, response>>

\* main, stashed: matrix::TfIdfMatrix::build, and the server starts
TfIdfBuild ==
    /\ UNCHANGED <<svd_vars, store_vars, handler_vars, stem_vars, side_vars>>
    /\ variant = "stashed" /\ pc = "vocabulary"
    /\ df' = build_df(documents, term_dict)
    /\ idf' = build_idf(documents, term_dict)
    /\ matrix' = build_normalize(build_triplets(documents, term_dict))
    /\ pc' = "serving"
    /\ UNCHANGED <<variant, documents, stop_words, term_dict, inverse_term_dict, svd_data,
                   request, query_vec, similarities, response>>

\* the stashed search handler without SVD: engine::search::search.  CsVec::new
\* takes the indices in the iteration order of a HashMap and panics when they
\* are not ascending, which may happen when the query hits two or more terms
EngineSearch ==
    /\ UNCHANGED <<svd_vars, store_vars, handler_vars, stem_vars, side_vars>>
    /\ variant = "stashed" /\ pc = "serving"
    /\ pc' = "answered"
    /\ \E q \in Queries, k \in Limits, sorted \in BOOLEAN :
          LET qv == engine_query_vector(q, term_dict, idf)
              out == IF sorted THEN engine_search(qv, matrix, k)
                     ELSE Outcome("panic", << >>, << >>)
          IN /\ sorted \/ Cardinality(DOMAIN qv) >= 2
             /\ request' = [query |-> q, method |-> 2, limit |-> k]
             /\ query_vec' = qv
             /\ similarities' = out.similarities
             /\ response' = [status |-> out.status, results |-> out.results]
    /\ UNCHANGED <<variant, documents, stop_words, index_vars>>

\* the handler returns: the response is sent and the server waits for the
\* next request; nothing of the request is kept
Respond ==
    /\ UNCHANGED <<svd_vars, store_vars, handler_vars, stem_vars, side_vars>>
    /\ pc = "answered"
    /\ pc' = "serving"
    /\ request' = NoRequest
    /\ query_vec' = EmptyMap
    /\ similarities' = << >>
    /\ response' = NoResponse
    /\ UNCHANGED <<variant, documents, stop_words, index_vars>>

Next ==
    \/ BuildTermDocumentMatrix
    \/ CalculateIdf
    \/ ApplyIdfWeighting
    \/ NormalizeColumns
    \/ LoadOrPerformSvd
    \/ SvdFails
    \/ SearchHandler
    \/ BuildVocabulary
    \/ TfIdfBuild
    \/ EngineSearch
    \/ Respond

Spec == Init /\ [][Next]_vars

-----------------------------------------------------------------------------
(* The SVD engine.  Singular values are integers in units of the tolerance,  *)
(* eigenvalues integers in units of the tolerance squared.  A vector is      *)
(* [x, d2]: the coordinates x[1], x[2] divided by sqrt(d2), every further    *)
(* coordinate 0, so that a dimension may be large.                           *)

\* 1 / tolerance: perform_svd passes the tolerance 1e-6
TolInverse == 1000000

\* a singular value must exceed 10 tolerances for the recovered vector to be kept
SmallSigmaFactor == 10

\* k.min(working_dim).min(1000)
RankCap == 1000

\* perform_svd passes max_iter = 200
MaxIter == 200

\* the largest number of Lanczos steps that do not end early, and of
\* components compute_svd computes
MaxLanczos == 3

\* a dimension above RankCap
BigDim == RankCap + 1

\* the dimensions of the matrix and the ranks asked for
Dims == {1, 2, BigDim}

Ranks == {1, 2, 3, BigDim}

Vec(x, d2) == [x |-> x, d2 |-> d2]

VZero == Vec(<<0, 0>>, 1)

\* the product of the numerators of two vectors
VDot(v, w) == v.x[1] * w.x[1] + v.x[2] * w.x[2]

RECURSIVE Gcd(_, _)
Gcd(p, q) == IF q = 0 THEN p ELSE Gcd(q, p % q)

\* v / norm(v): the unit vector along the integer direction r
unit_along(r) ==
    LET g == Gcd(Abs(r[1]), Abs(r[2]))
        x == <<r[1] \div g, r[2] \div g>>
    IN Vec(x, x[1] * x[1] + x[2] * x[2])

\* the matrices behind the operators: the entries of the first two rows and
\* columns, the rest 0
Clip(mat, nr, nc) ==
    [r \in 1..2 |-> [c \in 1..2 |-> IF r <= nr /\ c <= nc THEN mat[r][c] ELSE 0]]

MatrixPool(nr, nc) ==
    { Clip(<<<<1, 0>>, <<0, 1>>>>, nr, nc), Clip(<<<<1, 1>>, <<0, 0>>>>, nr, nc) }

\* perform_svd, linear_op: result = A * v
matrix_op(mat, v) ==
    Vec(<<mat[1][1] * v.x[1] + mat[1][2] * v.x[2], mat[2][1] * v.x[1] + mat[2][2] * v.x[2]>>, v.d2)

\* perform_svd, transpose_op: result = A^T * v
transpose_op(mat, v) ==
    Vec(<<mat[1][1] * v.x[1] + mat[2][1] * v.x[2], mat[1][2] * v.x[1] + mat[2][2] * v.x[2]>>, v.d2)

\* the combinations sum_l q[l] * theta[l] the eigenvectors may give, in a
\* space of dimension dim: unit vectors
RitzVectors(dim) ==
    IF dim = 1 THEN { Vec(<<1, 0>>, 1) }
    ELSE { Vec(<<1, 0>>, 1), Vec(<<0, 1>>, 1), Vec(<<1, 1>>, 2) }

\* the eigenvalues symmetric_eigen may give
Lambdas == { -TolInverse - 1, -1, 1, 4, SmallSigmaFactor * SmallSigmaFactor, 121 }

\* the rank as it was asked for, not adjusted
clamp_k_at_request(k_in, working_dim) == k_in

\* let k = k.min(working_dim).min(1000)
clamp_k(k_in, working_dim) == Min(Min(k_in, working_dim), RankCap)

\* twice the rank, whatever the dimension and max_iter are
lanczos_steps_twice_k(k_in, working_dim, max_iter) == 2 * k_in

\* let mut m = (2 * k).min(working_dim).min(max_iter)
lanczos_steps(k_in, working_dim, max_iter) == Min(Min(2 * k_in, working_dim), max_iter)

\* indices sorted with the smallest eigenvalue first
RECURSIVE insert_index_ascending(_, _, _)
insert_index_ascending(sorted, x, eigenvalues) ==
    IF sorted = << >> THEN <<x>>
    ELSE IF eigenvalues[x] < eigenvalues[Head(sorted)] THEN <<x>> \o sorted
    ELSE <<Head(sorted)>> \o insert_index_ascending(Tail(sorted), x, eigenvalues)

\* indices.sort_by(|&a, &b| eigenvalues[b].partial_cmp(&eigenvalues[a])):
\* a stable sort, the largest eigenvalue first
RECURSIVE insert_index(_, _, _)
insert_index(sorted, x, eigenvalues) ==
    IF sorted = << >> THEN <<x>>
    ELSE IF eigenvalues[Head(sorted)] < eigenvalues[x] THEN <<x>> \o sorted
    ELSE <<Head(sorted)>> \o insert_index(Tail(sorted), x, eigenvalues)

RECURSIVE sort_indices_from(_, _, _)
sort_indices_from(eigenvalues, x, acc) ==
    IF x > Len(eigenvalues) THEN acc
    ELSE sort_indices_from(eigenvalues, x + 1, insert_index(acc, x, eigenvalues))

sort_indices(eigenvalues) == sort_indices_from(eigenvalues, 1, << >>)

\* the square root of a square
sqrt(x) == CHOOSE r \in 0..x : r * r = x

\* the closure of the map: 0 for an eigenvalue below -tolerance, else
\* sqrt(max(lambda, 0))
sigma_of_lambda(lambda) ==
    IF lambda < -TolInverse THEN 0 ELSE sqrt(IF lambda > 0 THEN lambda ELSE 0)

\* the sigma of sparse_svd: the first k sorted eigenvalues, mapped, those
\* above the tolerance kept
sigma_of(eigenvalues, k_in) ==
    SelectSeq(MapSeq([x \in 1..Min(k_in, Len(eigenvalues)) |->
                         eigenvalues[sort_indices(eigenvalues)[x]]],
                     sigma_of_lambda),
              LAMBDA sv : sv > 1)

\* a recovered vector that is divided by sigma whatever sigma is
scale_or_zero_always_scaled(v, sv) == Vec(v.x, v.d2 * sv * sv)

\* u_col /= sigma[col] when sigma[col] > tolerance * 10.0, else u_col.fill(0.0)
scale_or_zero(v, sv) ==
    IF sv > SmallSigmaFactor THEN Vec(v.x, v.d2 * sv * sv) ELSE VZero

\* the post-hoc orthonormalisation of one column against the columns before
\* it, which are unit or zero vectors: the dots with the columns before are
\* taken first, then the projections are taken off, and what is left is
\* divided by max(its norm, 1e-10); a vector of the model that is not zero
\* has a norm far above 1e-10.  `residual` is what is left, times the product
\* of the d2 of the columns before
RECURSIVE ProductD2(_)
ProductD2(before) == IF before = << >> THEN 1 ELSE Head(before).d2 * ProductD2(Tail(before))

residual(x, before) ==
    LET D == ProductD2(before)
        J == 1..Len(before)
        dots == [j \in J |-> x[1] * before[j].x[1] + x[2] * before[j].x[2]]
    IN [c \in 1..2 |->
          D * x[c] - SumOver(J, [j \in J |-> dots[j] * (D \div before[j].d2) * before[j].x[c]])]

orthonormalize_one(current, before) ==
    LET left == residual(current.x, before)
    IN IF left = <<0, 0>> THEN VZero ELSE unit_along(left)

RECURSIVE orthonormalize_from(_, _)
orthonormalize_from(cols, x) ==
    IF x > Len(cols) THEN cols
    ELSE orthonormalize_from(
            [cols EXCEPT ![x] = orthonormalize_one(cols[x], SubSeq(cols, 1, x - 1))], x + 1)

\* the loop `for i in 0..actual_k` over the columns of u, or the rows of vt
orthonormalize(cols) == orthonormalize_from(cols, 1)

\* the singular values sparse_power_iteration may give
PowerSigmas == {2, 11}

\* the state of the program while only the SVD engine is looked at
MainIdle ==
    /\ documents = << >>
    /\ stop_words = {}
    /\ pc = "start"
    /\ term_dict = EmptyMap
    /\ inverse_term_dict = EmptyMap
    /\ df = EmptyMap
    /\ idf = EmptyMap
    /\ matrix = EmptyMatrix
    /\ svd_data = NoSvd
    /\ request = NoRequest
    /\ query_vec = EmptyMap
    /\ similarities = << >>
    /\ response = NoResponse

\* a call of sparse_svd (upstream) or compute_svd (stashed) on a matrix of
\* the pool; compute_svd runs min(k, V, N) power iterations, so one of its
\* dimensions is small
InitSvd ==
    /\ variant \in {"upstream", "stashed"}
    /\ MainIdle
    /\ svd_pc = "call"
    /\ nrows \in Dims
    /\ ncols \in Dims
    /\ k_arg \in Ranks
    /\ variant = "stashed" => Min(nrows, ncols) <= MaxLanczos
    /\ a_op \in MatrixPool(nrows, ncols)
    /\ k_eff = 0 /\ m_steps = 0 /\ i_loop = 0
    /\ sigma = << >>
    /\ recovered = [u |-> << >>, vt |-> << >>]
    /\ u_cols = << >> /\ vt_rows = << >>
    /\ files = NoFiles
    /\ damaged = FALSE
    /\ handlers = NoHandlers
    /\ NoStemming
    /\ SideIdle

work_on_at_a == ncols <= nrows

working_dim == IF work_on_at_a THEN ncols ELSE nrows

\* sparse_svd, lines 21-39: the rank and the number of steps are adjusted
SvdStart ==
    /\ variant = "upstream" /\ svd_pc = "call"
    /\ k_eff' = clamp_k(k_arg, working_dim)
    /\ m_steps' = lanczos_steps(clamp_k(k_arg, working_dim), working_dim, MaxIter)
    /\ i_loop' = 0
    /\ svd_pc' = "lanczos"
    /\ UNCHANGED <<main_vars, store_vars, handler_vars, stem_vars, side_vars, a_op, nrows, ncols, k_arg, sigma, recovered, u_cols, vt_rows>>

\* one Lanczos iteration whose beta[i+1] is at least the tolerance: q[i+1] is set
LanczosStep ==
    /\ svd_pc = "lanczos" /\ i_loop < m_steps
    /\ i_loop + 1 < MaxLanczos \/ i_loop + 1 = m_steps
    /\ i_loop' = i_loop + 1
    /\ UNCHANGED <<main_vars, store_vars, handler_vars, stem_vars, side_vars, svd_pc, a_op, nrows, ncols, k_arg, k_eff, m_steps, sigma,
                   recovered, u_cols, vt_rows>>

\* one Lanczos iteration whose beta[i+1] is below the tolerance, NaN or
\* infinite: m = i + 1 and the loop is left
LanczosEarlyTermination ==
    /\ svd_pc = "lanczos" /\ i_loop < m_steps
    /\ m_steps' = i_loop + 1
    /\ svd_pc' = "tridiagonal"
    /\ UNCHANGED <<main_vars, store_vars, handler_vars, stem_vars, side_vars, a_op, nrows, ncols, k_arg, k_eff, i_loop, sigma,
                   recovered, u_cols, vt_rows>>

\* the loop `for i in 0..m` ends
LanczosDone ==
    /\ svd_pc = "lanczos" /\ i_loop = m_steps
    /\ svd_pc' = "tridiagonal"
    /\ UNCHANGED <<main_vars, store_vars, handler_vars, stem_vars, side_vars, a_op, nrows, ncols, k_arg, k_eff, m_steps, i_loop, sigma,
                   recovered, u_cols, vt_rows>>

\* lines 89-125: the eigenvalues of the m x m matrix t, the sorted indices,
\* sigma, and Err when no singular value is left
SymmetricEigen ==
    /\ svd_pc = "tridiagonal"
    /\ \E eigenvalues \in [1..m_steps -> Lambdas] :
          sigma' = sigma_of(eigenvalues, k_eff)
    /\ svd_pc' = IF sigma' = << >> THEN "err" ELSE "recover"
    /\ UNCHANGED <<main_vars, store_vars, handler_vars, stem_vars, side_vars, a_op, nrows, ncols, k_arg, k_eff, m_steps, i_loop,
                   recovered, u_cols, vt_rows>>

\* lines 128-170: the singular vectors, one per singular value
RecoverVectors ==
    /\ svd_pc = "recover"
    /\ \E ritz \in [1..Len(sigma) -> RitzVectors(working_dim)] :
          /\ u_cols' = [col \in 1..Len(sigma) |->
                          IF work_on_at_a
                          THEN scale_or_zero(matrix_op(a_op, ritz[col]), sigma[col])
                          ELSE ritz[col]]
          /\ vt_rows' = [col \in 1..Len(sigma) |->
                           IF work_on_at_a
                           THEN ritz[col]
                           ELSE scale_or_zero(transpose_op(a_op, ritz[col]), sigma[col])]
    /\ recovered' = [u |-> u_cols', vt |-> vt_rows']
    /\ svd_pc' = "orthonormalize_u"
    /\ UNCHANGED <<main_vars, store_vars, handler_vars, stem_vars, side_vars, a_op, nrows, ncols, k_arg, k_eff, m_steps, i_loop, sigma>>

\* lines 172-191: the columns of u
OrthonormalizeU ==
    /\ svd_pc = "orthonormalize_u"
    /\ u_cols' = orthonormalize(u_cols)
    /\ svd_pc' = "orthonormalize_vt"
    /\ UNCHANGED <<main_vars, store_vars, handler_vars, stem_vars, side_vars, a_op, nrows, ncols, k_arg, k_eff, m_steps, i_loop, sigma,
                   recovered, vt_rows>>

\* lines 193-215: the rows of vt, and Ok((u, sigma, vt))
OrthonormalizeVt ==
    /\ svd_pc = "orthonormalize_vt"
    /\ vt_rows' = orthonormalize(vt_rows)
    /\ svd_pc' = "ok"
    /\ UNCHANGED <<main_vars, store_vars, handler_vars, stem_vars, side_vars, a_op, nrows, ncols, k_arg, k_eff, m_steps, i_loop, sigma,
                   recovered, u_cols>>

\* compute_svd, lines 37-43: u, sigma and v_t are allocated for k components
ComputeSvdStart ==
    /\ variant = "stashed" /\ svd_pc = "call"
    /\ sigma' = [x \in 1..k_arg |-> 0]
    /\ u_cols' = [x \in 1..k_arg |-> VZero]
    /\ vt_rows' = [x \in 1..k_arg |-> VZero]
    /\ i_loop' = 0
    /\ svd_pc' = "power"
    /\ UNCHANGED <<main_vars, store_vars, handler_vars, stem_vars, side_vars, a_op, nrows, ncols, k_arg, k_eff, m_steps, recovered>>

\* compute_svd, lines 45-63: one component from sparse_power_iteration
PowerIteration ==
    /\ svd_pc = "power"
    /\ i_loop < k_arg /\ i_loop < Min(nrows, ncols)
    /\ \E s \in PowerSigmas, u_i \in RitzVectors(nrows), v_i \in RitzVectors(ncols) :
          /\ sigma' = [sigma EXCEPT ![i_loop + 1] = s]
          /\ u_cols' = [u_cols EXCEPT ![i_loop + 1] = u_i]
          /\ vt_rows' = [vt_rows EXCEPT ![i_loop + 1] = v_i]
    /\ i_loop' = i_loop + 1
    /\ UNCHANGED <<main_vars, store_vars, handler_vars, stem_vars, side_vars, svd_pc, a_op, nrows, ncols, k_arg, k_eff, m_steps, recovered>>

\* compute_svd, lines 45-49 and 65-70: the loop ends or breaks, and the
\* decomposition is returned with k as it was asked for
ComputeSvdReturn ==
    /\ svd_pc = "power"
    /\ i_loop >= k_arg \/ i_loop >= Min(nrows, ncols)
    /\ k_eff' = k_arg
    /\ svd_pc' = "ok"
    /\ UNCHANGED <<main_vars, store_vars, handler_vars, stem_vars, side_vars, a_op, nrows, ncols, k_arg, m_steps, i_loop, sigma, recovered,
                   u_cols, vt_rows>>

NextSvd ==
    \/ SvdStart
    \/ LanczosStep
    \/ LanczosEarlyTermination
    \/ LanczosDone
    \/ SymmetricEigen
    \/ RecoverVectors
    \/ OrthonormalizeU
    \/ OrthonormalizeVt
    \/ ComputeSvdStart
    \/ PowerIteration
    \/ ComputeSvdReturn

SpecSvd == InitSvd /\ [][NextSvd]_vars

-----------------------------------------------------------------------------
(* Properties of the index and of the answers *)

\* the vocabulary is built
VocabularyBuilt == pc # "start"

\* df and idf are computed
IdfComputed == pc \notin {"start", "counted", "vocabulary"}

\* the matrix is weighted and normalised
IndexBuilt == pc \in {"normalized", "serving", "answered", "failed"}

\* a search request has been answered in one of the scoring modes
Answered == pc = "answered" /\ request.method \in {2, 3, 4}

\* the words the indexer of the running variant takes from a text
IndexerWords(text) ==
    IF variant = "upstream" THEN Range(tokenize(text))
    ELSE Range(Runs(ToLowercase(text), "alpha"))

\* the terms of a document: its words that are not stop words, stemmed
TermsOf(doc) ==
    { porter_stem(w) :
        w \in IndexerWords(IF variant = "upstream" THEN doc.text ELSE full_text(doc))
               \ stop_words }

\* the tokens of document j the builder found in the vocabulary
TokensIn(j) ==
    IF variant = "upstream" THEN Range(doc_stems(documents[j], stop_words))
    ELSE Range(build_tokens(documents[j], term_dict))

\* the squared norm of column j of the matrix is 1
UnitColumn(j) == ColNormSq(matrix, j - 1).num = ColNormSq(matrix, j - 1).den

\* every stored value of column j of the matrix is 0
ZeroColumn(j) == \A p \in ColEntries(matrix, j - 1) : matrix.entries[p].n = 0

\* C1: once the vocabulary is built, term_dict maps the distinct stemmed terms
\* of the corpus one-to-one onto 0..|V|-1, and the indices follow the
\* lexicographic order of the terms
C1_VocabularyLexicographic ==
    VocabularyBuilt =>
        /\ DOMAIN term_dict = UNION { TermsOf(documents[j]) : j \in 1..Len(documents) }
        /\ \A a, b \in DOMAIN term_dict : a # b => term_dict[a] # term_dict[b]
        /\ { term_dict[t] : t \in DOMAIN term_dict } = 0..(Cardinality(DOMAIN term_dict) - 1)
        /\ \A a, b \in DOMAIN term_dict : StrLess(a, b) => term_dict[a] < term_dict[b]

\* C2: the query evaluator maps a word of the query to a term exactly when the
\* indexer maps that word to the term: every query word that is no stop word
\* and whose stem is a term of non-zero idf has a non-zero weight at the index
\* of that term in the query vector, and every non-zero weight of the query
\* vector is at the index of the stem of such a word
C2_QuerySharesPipeline ==
    Answered =>
        /\ \A w \in IndexerWords(request.query) \ stop_words :
              LET t == porter_stem(w)
              IN (t \in DOMAIN term_dict /\ idf[term_dict[t]] # 0) =>
                    /\ term_dict[t] \in DOMAIN query_vec
                    /\ query_vec[term_dict[t]].n # 0
        /\ \A i \in DOMAIN query_vec :
              query_vec[i].n # 0 =>
                 \E w \in IndexerWords(request.query) \ stop_words :
                    porter_stem(w) = inverse_term_dict[i]

\* no token of the query, stemmed or not, is a term of the vocabulary
NoVocabularyToken ==
    \A w \in Range(tokenize(request.query)) \cup Range(split_trim(request.query)) :
        w \notin DOMAIN term_dict /\ porter_stem(w) \notin DOMAIN term_dict

\* C3: in every scoring mode, a query with no in-vocabulary token is answered
\* with an empty result list and no error
C3_NoTokenNoResults ==
    (Answered /\ NoVocabularyToken) => response = [status |-> "ok", results |-> << >>]

\* C4: the list returned has at most `limit` entries, which are scored
\* documents; it is ordered by score descending, documents of equal score in
\* increasing index; it holds min(limit, number of scored documents) entries
\* and no scored document left out has a strictly higher score than one returned
C4_TopKSortedStable ==
    (Answered /\ response.status = "ok") =>
        LET r == response.results
            s == similarities
        IN /\ Len(r) <= request.limit
           /\ Len(r) = Min(request.limit, Len(s))
           /\ \A i \in 1..Len(r) : r[i] \in Range(s)
           /\ \A i, j \in 1..Len(r) :
                 i < j => /\ ~SurdLess(r[i].score, r[j].score)
                          /\ r[i].doc # r[j].doc
                          /\ SurdEq(r[i].score, r[j].score) => r[i].doc < r[j].doc
           /\ \A x \in Range(s) \ Range(r) :
                 \A i \in 1..Len(r) : ~SurdLess(r[i].score, x.score)

\* C4, reached: two documents are scored, the second higher than the first,
\* and the one entry returned is the second document
C4_Witness ==
    /\ Answered /\ response.status = "ok"
    /\ Len(similarities) = 2 /\ request.limit = 1
    /\ SurdLess(similarities[1].score, similarities[2].score)
    /\ response.results = <<similarities[2]>>

\* C5 as stated: once the index is built, the column of every document with
\* at least one in-vocabulary token has squared norm 1
C5_UnitColumns ==
    IndexBuilt => \A j \in 1..Len(documents) : TokensIn(j) # {} => UnitColumn(j)

\* document j has a term whose idf is not 0
HasWeightedTerm(j) == \E t \in TokensIn(j) : idf[term_dict[t]] # 0

\* C5, amended: once the index is built, the column of a document has squared
\* norm 1 when the document has a term of non-zero idf (a term that is not in
\* every document), and is all zero otherwise
C5_UnitColumnsWhereWeighted ==
    IndexBuilt =>
        \A j \in 1..Len(documents) :
            IF HasWeightedTerm(j) THEN UnitColumn(j) ELSE ZeroColumn(j) /\ ~UnitColumn(j)

\* C5, reached: an index over two documents, one with a term of non-zero idf
\* and a unit column, one with tokens and a zero column
C5_Witness ==
    /\ IndexBuilt /\ Len(documents) = 2
    /\ \E j \in 1..2 : HasWeightedTerm(j) /\ UnitColumn(j)
    /\ \E j \in 1..2 : TokensIn(j) # {} /\ ~HasWeightedTerm(j) /\ ZeroColumn(j)

\* C6 as stated: the idf of a term is 0 exactly when its df is 0
C6_IdfZeroIffDfZero ==
    IdfComputed => \A i \in DOMAIN idf : idf[i] = 0 <=> df[i] = 0

\* C6, amended: no idf is negative, and the idf of a term is 0 exactly when
\* its df is 0 or its df is the number of documents
C6_IdfZeroIffDfZeroOrAll ==
    IdfComputed =>
        \A i \in DOMAIN idf :
            /\ idf[i] >= 0
            /\ idf[i] = 0 <=> (df[i] = 0 \/ df[i] = Len(documents))

\* C6, reached: of two documents, a term in both has idf 0 and a term in one
\* has an idf above 0
C6_Witness ==
    /\ IdfComputed /\ Len(documents) = 2
    /\ \E i \in DOMAIN idf : df[i] = 2 /\ idf[i] = 0
    /\ \E i \in DOMAIN idf : df[i] = 1 /\ idf[i] > 0

\* C7: the df of a term is the number of documents whose terms (tokenised,
\* stop words dropped, stemmed) include it, and it is at least 1 for every
\* term of the vocabulary
C7_DocumentFrequency ==
    IdfComputed =>
        \A t \in DOMAIN term_dict :
            /\ df[term_dict[t]] = Cardinality({ j \in 1..Len(documents) : t \in TermsOf(documents[j]) })
            /\ df[term_dict[t]] >= 1

-----------------------------------------------------------------------------
(* Properties of the SVD engine *)

\* sparse_svd has returned Ok((u, sigma, vt))
SvdReturned == variant = "upstream" /\ svd_pc = "ok"

\* the squared norm of a vector is 1
IsUnit(v) == VDot(v, v) = v.d2

IsZero(v) == v.x = <<0, 0>>

\* the vectors of a sequence are pairwise orthogonal
PairwiseOrthogonal(cols) ==
    \A x, y \in 1..Len(cols) : x # y => VDot(cols[x], cols[y]) = 0

\* the dimension of the space the first n vectors of a sequence span
RankOfFirst(cols, n) ==
    IF \E x, y \in 1..n : cols[x].x[1] * cols[y].x[2] # cols[x].x[2] * cols[y].x[1] THEN 2
    ELSE IF \E x \in 1..n : ~IsZero(cols[x]) THEN 1
    ELSE 0

\* vector x of a sequence is no combination of the vectors before it
Independent(cols, x) == RankOfFirst(cols, x) > RankOfFirst(cols, x - 1)

C9_SigmaDescendingAboveTol ==
    SvdReturned =>
        /\ \A x \in 1..Len(sigma) : sigma[x] > 1
        /\ \A x \in 1..(Len(sigma) - 1) : sigma[x] >= sigma[x + 1]

\* C9, reached: three singular values are returned, the first above the
\* last, the last one twice the tolerance
C9_Witness ==
    /\ SvdReturned
    /\ Len(sigma) = 3
    /\ sigma[1] > sigma[3] /\ sigma[3] = 2

\* C10 as stated: every column of u and every row of vt returned is a unit
\* vector, and distinct columns, and distinct rows, are orthogonal
C10_Orthonormal ==
    SvdReturned =>
        /\ \A x \in 1..Len(sigma) : IsUnit(u_cols[x]) /\ IsUnit(vt_rows[x])
        /\ PairwiseOrthogonal(u_cols)
        /\ PairwiseOrthogonal(vt_rows)

\* the factor the recovery loop computes from the other one: u when
\* N <= V, vt otherwise
RecoveredFactor == IF work_on_at_a THEN u_cols ELSE vt_rows

\* C10, amended: distinct columns of u, and distinct rows of vt, are
\* orthogonal; a column (row) is a unit vector when the vector the recovery
\* loop left for it is no combination of the ones before it, and the zero
\* vector otherwise; in the recovered factor the vector of a singular value of
\* at most 10 tolerances is the zero vector
C10_OrthonormalOrZero ==
    SvdReturned =>
        /\ PairwiseOrthogonal(u_cols)
        /\ PairwiseOrthogonal(vt_rows)
        /\ \A x \in 1..Len(sigma) :
              /\ IF Independent(recovered.u, x) THEN IsUnit(u_cols[x]) ELSE IsZero(u_cols[x])
              /\ IF Independent(recovered.vt, x) THEN IsUnit(vt_rows[x]) ELSE IsZero(vt_rows[x])
              /\ sigma[x] <= SmallSigmaFactor => IsZero(RecoveredFactor[x])

\* C10, reached: two singular values, the first above 10 tolerances with a
\* unit column of u, the second between 1 and 10 tolerances with a zero
\* column of u, in the branch N <= V
C10_Witness ==
    /\ SvdReturned /\ work_on_at_a
    /\ Len(sigma) = 2
    /\ sigma[1] > SmallSigmaFactor /\ IsUnit(u_cols[1])
    /\ sigma[2] > 1 /\ sigma[2] <= SmallSigmaFactor /\ IsZero(u_cols[2])
    /\ IsUnit(vt_rows[1]) /\ IsUnit(vt_rows[2])

-----------------------------------------------------------------------------
(* The cache files, util/data.rs.  A file is the sequence of the values    *)
(* bincode writes: an integer or an f64 is one value, a sequence or a map  *)
(* is its length followed by its elements, a tuple or a struct is its      *)
(* fields one after the other.  A path is written as one value.            *)

\* the integers of a finite set, ascending
RECURSIVE Ascending(_)
Ascending(S) ==
    IF S = {} THEN << >>
    ELSE LET least == CHOOSE x \in S : \A y \in S : x <= y
         IN <<least>> \o Ascending(S \ {least})

\* SerializableCsrMatrix::from_csr: the stored entries row by row, the
\* columns of a row ascending
from_csr(csr) ==
    LET row_cols(i) == Ascending({ p[2] : p \in RowEntries(csr, i) })
    IN [nrows |-> csr.nrows,
        ncols |-> csr.ncols,
        row_offsets |-> [x \in 1..(csr.nrows + 1) |->
                            Cardinality({ p \in DOMAIN csr.entries : p[1] < x - 1 })],
        col_indices |-> Flatten([x \in 1..csr.nrows |-> row_cols(x - 1)]),
        values |-> Flatten([x \in 1..csr.nrows |->
                               [y \in 1..Len(row_cols(x - 1)) |->
                                   csr.entries[<<x - 1, row_cols(x - 1)[y]>>]]])]

\* SerializableCsrMatrix::to_csr
to_csr(ser) ==
    LET slots(i) == (ser.row_offsets[i + 1] + 1)..ser.row_offsets[i + 2]
        positions == UNION { { <<i, ser.col_indices[x]>> : x \in slots(i) } :
                             i \in 0..(ser.nrows - 1) }
    IN SparseMatrix(ser.nrows, ser.ncols,
                    [p \in positions |->
                        ser.values[CHOOSE x \in slots(p[1]) : ser.col_indices[x] = p[2]]])

\* a sequence (Vec, String, slice): the length, then the elements
serialize_seq(v) == <<Len(v)>> \o v

\* Document: id, title, url, text; the url is not modelled and empty
serialize_document(doc) ==
    <<doc.id>> \o serialize_seq(doc.title) \o serialize_seq(<< >>) \o serialize_seq(doc.text)

serialize_documents(docs) ==
    <<Len(docs)>> \o Flatten([x \in 1..Len(docs) |-> serialize_document(docs[x])])

\* HashMap<String, usize>: the length, then key and value of each entry; the
\* entries are written in the order of their values
serialize_term_dict(dict) ==
    LET inv == InverseOf(dict)
        order == Ascending(DOMAIN inv)
    IN <<Len(order)>> \o Flatten([x \in 1..Len(order) |->
                                     serialize_seq(inv[order[x]]) \o <<order[x]>>])

\* HashMap<usize, String>
serialize_inverse_term_dict(inv) ==
    LET order == Ascending(DOMAIN inv)
    IN <<Len(order)>> \o Flatten([x \in 1..Len(order) |->
                                     <<order[x]>> \o serialize_seq(inv[order[x]])])

\* the idf vector written from its last entry to its first
idf_vec_reversed(w) ==
    [x \in 1..Cardinality(DOMAIN w) |-> w[Cardinality(DOMAIN w) - x]]

\* Vec<f64> of the idf values
idf_vec(w) == [x \in 1..Cardinality(DOMAIN w) |-> w[x - 1]]

\* the result of a read: the value and what is left of the input, or an error
ReadOk(value, rest) == [ok |-> TRUE, value |-> value, rest |-> rest]

ReadErr == [ok |-> FALSE, value |-> << >>, rest |-> << >>]

\* deserialize_from for usize, i64, f64 or a path: an error at the end of the input
deserialize_value(buf) ==
    IF Len(buf) = 0 THEN ReadErr ELSE ReadOk(Head(buf), Tail(buf))

\* deserialize_from for Vec and String
deserialize_seq(buf) ==
    LET n == deserialize_value(buf)
    IN IF ~n.ok THEN ReadErr
       ELSE IF Len(n.rest) < n.value THEN ReadErr
       ELSE ReadOk(SubSeq(n.rest, 1, n.value), SubSeq(n.rest, n.value + 1, Len(n.rest)))

\* deserialize_from for a value or a sequence
deserialize_as(kind, buf) ==
    IF kind = "value" THEN deserialize_value(buf) ELSE deserialize_seq(buf)

\* values and sequences read one after the other; the first error ends the read
RECURSIVE deserialize_fields(_, _, _)
deserialize_fields(buf, kinds, acc) ==
    IF kinds = << >> THEN ReadOk(acc, buf)
    ELSE LET r == deserialize_as(Head(kinds), buf)
         IN IF r.ok THEN deserialize_fields(r.rest, Tail(kinds), Append(acc, r.value))
            ELSE ReadErr

\* the elements of width fields each that a flat sequence of fields holds
RecordsOf(flat, n, width) ==
    IF flat.ok
    THEN ReadOk([x \in 1..n |-> SubSeq(flat.value, (x - 1) * width + 1, x * width)], flat.rest)
    ELSE ReadErr

\* n elements, each with the fields named by kinds
deserialize_elements(n, kinds) ==
    IF n.ok
    THEN RecordsOf(deserialize_fields(n.rest,
                                      [x \in 1..(n.value * Len(kinds)) |->
                                          kinds[((x - 1) % Len(kinds)) + 1]],
                                      << >>),
                   n.value, Len(kinds))
    ELSE ReadErr

\* deserialize_from for a Vec of structs or a HashMap: the length, then the
\* fields of every element; the value is the sequence of the elements, each
\* the sequence of its fields
deserialize_records(buf, kinds) == deserialize_elements(deserialize_value(buf), kinds)

\* HashMap::insert of the entries in order: a later entry replaces an earlier one
MapOfEntries(es) ==
    [key \in { es[x][1] : x \in 1..Len(es) } |->
        LET last == CHOOSE x \in 1..Len(es) :
                        es[x][1] = key /\ \A y \in (x + 1)..Len(es) : es[y][1] # key
        IN es[last][2]]

\* Vec<Document> from the fields id, title, url, text of every element
DocumentsOf(records) ==
    [x \in 1..Len(records) |-> Document(records[x][1], records[x][2], records[x][4])]

\* File::create and the writes that follow: the file holds the new content
WriteFile(fs, name, content) ==
    [n \in DOMAIN fs \cup {name} |-> IF n = name THEN content ELSE fs[n]]

\* the index file main looks for, and the component files
\* save_preprocessed_data derives from it
preproc_index == "preprocessed.idx"

PreprocPaths == [dict |-> "preprocessed_terms.bin",
                 docs |-> "preprocessed_docs.bin",
                 matrix |-> "preprocessed_matrix.bin"]

PreprocessedData(dict, inv, w, docs, ser) ==
    [term_dict |-> dict, inverse_term_dict |-> inv, idf |-> w, documents |-> docs,
     term_doc_csr |-> ser]

\* util::data::save_preprocessed_data
save_preprocessed_data(data, fs) ==
    LET dict_data == serialize_term_dict(data.term_dict)
                     \o serialize_inverse_term_dict(data.inverse_term_dict)
                     \o serialize_seq(idf_vec(data.idf))
        matrix_data == <<data.term_doc_csr.nrows, data.term_doc_csr.ncols>>
                       \o serialize_seq(data.term_doc_csr.row_offsets)
                       \o serialize_seq(data.term_doc_csr.col_indices)
                       \o serialize_seq(data.term_doc_csr.values)
        fs1 == WriteFile(fs, PreprocPaths.dict, dict_data)
        fs2 == WriteFile(fs1, PreprocPaths.docs, serialize_documents(data.documents))
        fs3 == WriteFile(fs2, PreprocPaths.matrix, matrix_data)
    IN WriteFile(fs3, preproc_index,
                 <<PreprocPaths.dict, PreprocPaths.docs, PreprocPaths.matrix>>)

\* the vector of idf values as the map index -> idf the model keeps
idf_of_vec(v) == [i \in 0..(Len(v) - 1) |-> v[i + 1]]

\* File::open and deserialize_from for the values and sequences of a file
read_file(fs, name, kinds) ==
    IF name \in DOMAIN fs THEN deserialize_fields(fs[name], kinds, << >>) ELSE ReadErr

\* the second field of a tuple, read by `second` after the first; the
\* value is the pair
ReadPair(first, second) ==
    IF first.ok /\ second.ok THEN ReadOk(<<first.value, second.value>>, second.rest)
    ELSE ReadErr

RestOf(r) == IF r.ok THEN r.rest ELSE << >>

\* the inverse dictionary, then the idf vector
read_inverse_and_idf(inv) == ReadPair(inv, deserialize_seq(RestOf(inv)))

\* the dictionary, then the inverse dictionary and the idf vector
read_dict_and_rest(dict) ==
    ReadPair(dict, read_inverse_and_idf(deserialize_records(RestOf(dict), <<"value", "seq">>)))

\* the file of the dictionary: term_dict, inverse_term_dict and idf
read_dict_file(fs, name) ==
    IF name \in DOMAIN fs
    THEN read_dict_and_rest(deserialize_records(fs[name], <<"seq", "value">>))
    ELSE ReadErr

\* the file of the documents
read_docs_file(fs, name) ==
    IF name \in DOMAIN fs
    THEN deserialize_records(fs[name], <<"value", "seq", "seq", "seq">>)
    ELSE ReadErr

\* PreprocessedData from what the three component files hold
preprocessed_data_of(dict, docs, csr) ==
    IF dict.ok /\ docs.ok /\ csr.ok
    THEN ReadOk(PreprocessedData(MapOfEntries(dict.value[1]),
                                 MapOfEntries(dict.value[2][1]),
                                 idf_of_vec(dict.value[2][2]),
                                 DocumentsOf(docs.value),
                                 [nrows |-> csr.value[1], ncols |-> csr.value[2],
                                  row_offsets |-> csr.value[3],
                                  col_indices |-> csr.value[4],
                                  values |-> csr.value[5]]),
                << >>)
    ELSE ReadErr

\* load_preprocessed_data, after the index file: the component files
load_components(fs, index) ==
    IF index.ok
    THEN preprocessed_data_of(read_dict_file(fs, index.value[1]),
                              read_docs_file(fs, index.value[2]),
                              read_file(fs, index.value[3],
                                        <<"value", "value", "seq", "seq", "seq">>))
    ELSE ReadErr

\* util::data::load_preprocessed_data: every `?` returns the error
load_preprocessed_data(fs) ==
    load_components(fs, read_file(fs, preproc_index, <<"value", "value", "value">>))

\* CHUNK_SIZE of save_svd_data, 1_000_000 there, scaled down
ChunkSize == 2

\* a dense blob written chunk by chunk, every chunk a slice of its own
RECURSIVE serialize_chunks(_)
serialize_chunks(data) ==
    IF Len(data) = 0 THEN << >>
    ELSE LET end == Min(ChunkSize, Len(data))
         IN serialize_seq(SubSeq(data, 1, end))
            \o serialize_chunks(SubSeq(data, end + 1, Len(data)))

serialize_ser_matrix(ser) == <<ser.nrows, ser.ncols>> \o serialize_chunks(ser.data)

\* the index file of the SVD artefact of rank k and its component files
svd_index == "svd_k25.idx"

SvdPaths == [meta |-> "svd_k25_meta.bin", u |-> "svd_k25_u.bin",
             vt |-> "svd_k25_vt.bin", docs |-> "svd_k25_docs.bin"]

\* util::data::save_svd_data
save_svd_data(data, fs) ==
    LET fs1 == WriteFile(fs, SvdPaths.meta, <<data.rank>> \o serialize_seq(data.sigma_k))
        fs2 == WriteFile(fs1, SvdPaths.u, serialize_ser_matrix(data.u_ser))
        fs3 == WriteFile(fs2, SvdPaths.vt, serialize_ser_matrix(data.vt_ser))
        fs4 == WriteFile(fs3, SvdPaths.docs, serialize_ser_matrix(data.docs_ser))
    IN WriteFile(fs4, svd_index, <<SvdPaths.meta, SvdPaths.u, SvdPaths.vt, SvdPaths.docs>>)

\* Vec::resize with 0.0, for a length not below the present one
resize_with_zeros(data, n) == data \o [x \in 1..(n - Len(data)) |-> 0]

\* the data padded when it is short and left as it is otherwise
resize_only(data, n) ==
    IF Len(data) < n THEN resize_with_zeros(data, n) ELSE data

\* load_svd_data, lines 74-87: data of another length than nrows * ncols is
\* padded with zeros or truncated
resize_or_truncate(data, n) ==
    IF Len(data) # n
    THEN IF Len(data) < n THEN resize_with_zeros(data, n) ELSE SubSeq(data, 1, n)
    ELSE data

\* the data read, or zeros when the read failed, padded or truncated
data_or_zeros(result, total_size) ==
    resize_or_truncate(IF result.ok THEN result.value ELSE [x \in 1..total_size |-> 0],
                       total_size)

\* SerMatrix from the header of a file and the read of its data
ser_matrix_of(header, result) ==
    [nrows |-> header.value[1], ncols |-> header.value[2],
     data |-> data_or_zeros(result, header.value[1] * header.value[2])]

\* load_svd_data, after the header of a dense matrix: one Vec<f64> is read,
\* zeros are taken when it cannot be read, and the data is padded or
\* truncated to nrows * ncols
load_data(header) ==
    IF header.ok THEN ReadOk(ser_matrix_of(header, deserialize_seq(header.rest)), << >>)
    ELSE ReadErr

\* load_svd_data, one dense matrix: the file must open and nrows and ncols
\* must be readable
load_ser_matrix(fs, path) == load_data(read_file(fs, path, <<"value", "value">>))

\* SvdData from what the four component files hold
svd_data_of(meta, u_ser, vt_ser, docs_ser) ==
    IF meta.ok /\ u_ser.ok /\ vt_ser.ok /\ docs_ser.ok
    THEN ReadOk([rank |-> meta.value[1], sigma_k |-> meta.value[2],
                 u_ser |-> u_ser.value, vt_ser |-> vt_ser.value,
                 docs_ser |-> docs_ser.value], << >>)
    ELSE ReadErr

\* load_svd_data, after the index file: the component files
load_svd_components(fs, index) ==
    IF index.ok
    THEN svd_data_of(read_file(fs, index.value[1], <<"value", "seq">>),
                     load_ser_matrix(fs, index.value[2]),
                     load_ser_matrix(fs, index.value[3]),
                     load_ser_matrix(fs, index.value[4]))
    ELSE ReadErr

\* util::data::load_svd_data: every `?` returns the error
load_svd_data(fs) ==
    load_svd_components(fs, read_file(fs, svd_index, <<"value", "value", "value", "value">>))

-----------------------------------------------------------------------------
(* Startup with the cache files: main builds or loads the index and the    *)
(* SVD artefact, the process ends and is started again.                    *)

\* the state of main and of the index when a process starts
MemoryAtStart ==
    /\ pc = "start"
    /\ term_dict = EmptyMap
    /\ inverse_term_dict = EmptyMap
    /\ df = EmptyMap
    /\ idf = EmptyMap
    /\ matrix = EmptyMatrix
    /\ svd_data = NoSvd
    /\ request = NoRequest
    /\ query_vec = EmptyMap
    /\ similarities = << >>
    /\ response = NoResponse

InitStartup ==
    /\ variant \in {"upstream", "stashed"}
    /\ documents \in Corpora
    /\ stop_words \in StopWordSets
    /\ MemoryAtStart
    /\ SvdIdle
    /\ files = NoFiles
    /\ damaged = FALSE
    /\ handlers = NoHandlers
    /\ NoStemming
    /\ SideIdle

\* what a search leaves alone, and the SVD engine
startup_unchanged ==
    <<variant, stop_words, request, query_vec, similarities, response, svd_vars, handler_vars, stem_vars, side_vars>>

\* main, upstream, lines 491-493: preprocessed.idx exists and loads
LoadPreprocessedData ==
    /\ variant = "upstream" /\ pc = "start"
    /\ preproc_index \in DOMAIN files
    /\ \E pre \in {load_preprocessed_data(files)} :
          /\ pre.ok
          /\ term_dict' = pre.value.term_dict
          /\ inverse_term_dict' = pre.value.inverse_term_dict
          /\ idf' = pre.value.idf
          /\ documents' = pre.value.documents
          /\ matrix' = to_csr(pre.value.term_doc_csr)
    /\ pc' = "pre"
    /\ UNCHANGED <<df, svd_data, store_vars, startup_unchanged>>

\* main, upstream, lines 491-493: preprocessed.idx exists, the load fails
\* and `?` returns the error from main
LoadPreprocessedDataErr ==
    /\ variant = "upstream" /\ pc = "start"
    /\ preproc_index \in DOMAIN files
    /\ ~load_preprocessed_data(files).ok
    /\ pc' = "load_failed"
    /\ UNCHANGED <<documents, index_vars, store_vars, startup_unchanged>>

\* main, upstream, lines 494-511: no preprocessed.idx, the index is built
\* and saved
BuildAndSavePreprocessedData ==
    /\ variant = "upstream" /\ pc = "start"
    /\ preproc_index \notin DOMAIN files
    /\ \E dict \in {first_seen_dict(documents, stop_words)} :
       \E coo \in {count_matrix(documents, stop_words, dict)} :
       \E w \in {calculate_idf(coo)} :
       \E csr \in {normalize_columns(apply_idf_weighting(coo, w))} :
          /\ term_dict' = dict
          /\ inverse_term_dict' = InverseOf(dict)
          /\ df' = [i \in 0..(coo.nrows - 1) |-> doc_count(coo, i)]
          /\ idf' = w
          /\ matrix' = csr
          /\ files' = save_preprocessed_data(
                          PreprocessedData(dict, InverseOf(dict), w, documents, from_csr(csr)),
                          files)
    /\ pc' = "pre"
    /\ UNCHANGED <<documents, svd_data, damaged, startup_unchanged>>

\* main, upstream, lines 517-519: svd_k25.idx exists and loads
LoadSvdData ==
    /\ variant = "upstream" /\ pc = "pre"
    /\ svd_index \in DOMAIN files
    /\ \E svd \in {load_svd_data(files)} : svd.ok /\ svd_data' = svd.value
    /\ pc' = "serving"
    /\ UNCHANGED <<documents, term_dict, inverse_term_dict, df, idf, matrix, store_vars,
                   startup_unchanged>>

\* main, upstream, lines 517-519: svd_k25.idx exists, the load fails and `?`
\* returns the error from main
LoadSvdDataErr ==
    /\ variant = "upstream" /\ pc = "pre"
    /\ svd_index \in DOMAIN files
    /\ ~load_svd_data(files).ok
    /\ pc' = "load_failed"
    /\ UNCHANGED <<documents, index_vars, store_vars, startup_unchanged>>

\* the matrix has a stored value that is not zero
HasNonZero(m) == \E p \in DOMAIN m.entries : m.entries[p].n # 0

\* main, upstream, lines 520-526: no svd_k25.idx, perform_svd returns a
\* triple of rank k' and the artefact is saved
PerformSvdAndSave ==
    /\ variant = "upstream" /\ pc = "pre"
    /\ svd_index \notin DOMAIN files
    /\ HasNonZero(matrix)
    /\ \E r \in 1..Min(SvdRankK, Min(matrix.nrows, matrix.ncols)), flip \in BOOLEAN :
          \E t \in {axis_triple(matrix.nrows, matrix.ncols, r, flip)} :
          \E svd \in {perform_svd_data(t.u, t.sigma, t.vt)} :
             /\ svd_data' = svd
             /\ files' = save_svd_data(svd, files)
    /\ pc' = "serving"
    /\ UNCHANGED <<documents, term_dict, inverse_term_dict, df, idf, matrix, damaged,
                   startup_unchanged>>

\* main, upstream, line 523: sparse_svd finds no singular value above the
\* tolerance, perform_svd returns the error and `?` returns it from main
PerformSvdErr ==
    /\ variant = "upstream" /\ pc = "pre"
    /\ svd_index \notin DOMAIN files
    /\ pc' = "failed"
    /\ UNCHANGED <<documents, index_vars, store_vars, startup_unchanged>>

\* the cache of the stashed main; CACHED_DATA_PATH and the SVD_CACHE_*
\* paths are named in main.rs and defined nowhere in the sources
cached_data_path == "CACHED_DATA_PATH"

\* save_cached_data: the struct CachedData as bincode writes it, taken as
\* one value
save_cached_data(data, fs) == WriteFile(fs, cached_data_path, <<data>>)

\* load_cached_data: an error when the file is missing or cannot be read
load_cached_data(fs) ==
    IF cached_data_path \in DOMAIN fs THEN deserialize_value(fs[cached_data_path]) ELSE ReadErr

\* main, stashed, lines 128-138: the cache loads
LoadCachedData ==
    /\ variant = "stashed" /\ pc = "start"
    /\ \E cached_data \in {load_cached_data(files)} :
          /\ cached_data.ok
          /\ documents' = cached_data.value.documents
          /\ term_dict' = cached_data.value.terms
          /\ inverse_term_dict' = InverseOf(cached_data.value.terms)
          /\ idf' = cached_data.value.tfidf_matrix.idf
          /\ matrix' = cached_data.value.tfidf_matrix.matrix
    /\ pc' = "svd_config_10"
    /\ UNCHANGED <<df, svd_data, store_vars, startup_unchanged>>

\* main, stashed, lines 139-184: the cache does not load; the index is
\* rebuilt and saved
RebuildCachedData ==
    /\ variant = "stashed" /\ pc = "start"
    /\ ~load_cached_data(files).ok
    /\ \E terms_map \in {build_vocabulary(documents, stop_words)} :
       \E new_idf \in {build_idf(documents, terms_map)} :
       \E new_matrix \in {build_normalize(build_triplets(documents, terms_map))} :
          /\ term_dict' = terms_map
          /\ inverse_term_dict' = InverseOf(terms_map)
          /\ df' = build_df(documents, terms_map)
          /\ idf' = new_idf
          /\ matrix' = new_matrix
          /\ files' = save_cached_data(
                          [documents |-> documents, terms |-> terms_map,
                           tfidf_matrix |-> [idf |-> new_idf, matrix |-> new_matrix]],
                          files)
    /\ pc' = "svd_config_10"
    /\ UNCHANGED <<documents, svd_data, damaged, startup_unchanged>>

\* main, stashed, lines 197-201: the SVD configurations, in order
svd_configs ==
    << [k |-> 10, path |-> "SVD_CACHE_10", at |-> "svd_config_10", then |-> "svd_config_25"],
       [k |-> 25, path |-> "SVD_CACHE_25", at |-> "svd_config_25", then |-> "svd_config_50"],
       [k |-> 50, path |-> "SVD_CACHE_50", at |-> "svd_config_50", then |-> "serving"] >>

\* SingularValueDecomposition as compute_svd sizes it: u is n_terms x k,
\* sigma has k entries, v_t is k x n_docs; the entries are not modelled
compute_svd_sized(m, k) == [k |-> k, n_terms |-> m.nrows, n_docs |-> m.ncols]

\* TfIdfMatrix::load_svd: an error when the file is missing or cannot be read
load_svd(fs, path) ==
    IF path \in DOMAIN fs THEN deserialize_value(fs[path]) ELSE ReadErr

\* main, stashed, lines 209-215, 232-244: the SVD of one configuration
\* loads, is tried on the sample queries and dropped
LoadSvdConfig ==
    /\ variant = "stashed"
    /\ \E x \in 1..Len(svd_configs) :
          /\ pc = svd_configs[x].at
          /\ load_svd(files, svd_configs[x].path).ok
          /\ pc' = svd_configs[x].then
    /\ UNCHANGED <<documents, index_vars, store_vars, startup_unchanged>>

\* main, stashed, lines 216-230, 232-244: the SVD of one configuration is
\* missing or does not load; it is computed, saved, tried and dropped
ComputeSvdConfig ==
    /\ variant = "stashed"
    /\ \E x \in 1..Len(svd_configs) :
          /\ pc = svd_configs[x].at
          /\ ~load_svd(files, svd_configs[x].path).ok
          /\ files' = WriteFile(files, svd_configs[x].path,
                                <<compute_svd_sized(matrix, svd_configs[x].k)>>)
          /\ pc' = svd_configs[x].then
    /\ UNCHANGED <<documents, index_vars, damaged, startup_unchanged>>

\* a file cut short
TruncateFile(fs, name) ==
    [n \in DOMAIN fs |-> IF n = name THEN SubSeq(fs[n], 1, Len(fs[n]) \div 2) ELSE fs[n]]

RemoveFile(fs, name) == [n \in DOMAIN fs \ {name} |-> fs[n]]

\* dense files that do not keep to their header: three values for a 1 x 2
\* matrix, one value for a 2 x 2 matrix, and a 2 x 1 matrix without data
ForeignDense ==
    { <<1, 2>> \o serialize_seq(<<5, 6, 7>>),
      <<2, 2>> \o serialize_seq(<<5>>),
      <<2, 1>> }

DensePaths == {SvdPaths.u, SvdPaths.vt, SvdPaths.docs}

\* the files with one of them cut short or removed, or with a dense file
\* of the SVD artefact replaced
FilesDamaged(fs) ==
    { TruncateFile(fs, name) : name \in DOMAIN fs }
        \cup { RemoveFile(fs, name) : name \in DOMAIN fs }
        \cup { WriteFile(fs, name, content) :
                  name \in DensePaths \cap DOMAIN fs, content \in ForeignDense }

\* a new process: main at its start, nothing in memory
StartProcess ==
    /\ pc' = "start"
    /\ term_dict' = EmptyMap
    /\ inverse_term_dict' = EmptyMap
    /\ df' = EmptyMap
    /\ idf' = EmptyMap
    /\ matrix' = EmptyMatrix
    /\ svd_data' = NoSvd
    /\ request' = NoRequest
    /\ query_vec' = EmptyMap
    /\ similarities' = << >>
    /\ response' = NoResponse

\* the process ends (the server is stopped, or main has returned an error)
\* and the program is started again on the same database; the files are as
\* they were left
Restart ==
    /\ pc \in {"serving", "failed", "load_failed"}
    /\ StartProcess
    /\ UNCHANGED <<variant, documents, stop_words, svd_vars, store_vars, handler_vars, stem_vars, side_vars>>

\* between two processes one file is cut short, removed or replaced; this
\* happens once
RestartDamaged ==
    /\ pc \in {"serving", "failed", "load_failed"}
    /\ ~damaged
    /\ StartProcess
    /\ files' \in FilesDamaged(files)
    /\ damaged' = TRUE
    /\ UNCHANGED <<variant, documents, stop_words, svd_vars, handler_vars, stem_vars, side_vars>>

NextStartup ==
    \/ LoadPreprocessedData
    \/ LoadPreprocessedDataErr
    \/ BuildAndSavePreprocessedData
    \/ LoadSvdData
    \/ LoadSvdDataErr
    \/ PerformSvdAndSave
    \/ PerformSvdErr
    \/ LoadCachedData
    \/ RebuildCachedData
    \/ LoadSvdConfig
    \/ ComputeSvdConfig
    \/ Restart
    \/ RestartDamaged

SpecStartup == InitStartup /\ [][NextStartup]_vars

-----------------------------------------------------------------------------
(* Properties of the startup and of the cache files *)

\* C11: when the SVD build finds no singular value above the tolerance,
\* main does not end with that error: the server starts on TF-IDF alone
C11_SvdFailureFallsBack == pc # "failed"


\* what main holds of the preprocessed index, as the struct PreprocessedData
ResidentPreprocessed ==
    PreprocessedData(term_dict, inverse_term_dict, idf, documents, from_csr(matrix))

\* C12, the preprocessed index of the upstream main: a cache that loads is
\* loaded and left as it is; otherwise the index is rebuilt and saved
C12_PreprocessedStep ==
    (variant = "upstream" /\ pc = "start") =>
        IF load_preprocessed_data(files).ok
        THEN /\ pc' = "pre"
             /\ files' = files
             /\ ResidentPreprocessed' = load_preprocessed_data(files).value
        ELSE /\ pc' = "pre"
             /\ load_preprocessed_data(files').ok

\* C12, the SVD cache of the upstream main
C12_SvdStep ==
    (variant = "upstream" /\ pc = "pre") =>
        IF load_svd_data(files).ok
        THEN /\ pc' = "serving"
             /\ files' = files
             /\ svd_data' = load_svd_data(files).value
        ELSE /\ pc' = "serving"
             /\ load_svd_data(files').ok

\* C12, the cached index of the stashed main
C12_CachedDataStep ==
    (variant = "stashed" /\ pc = "start") =>
        IF load_cached_data(files).ok
        THEN /\ pc' = "svd_config_10"
             /\ files' = files
             /\ documents' = load_cached_data(files).value.documents
             /\ term_dict' = load_cached_data(files).value.terms
        ELSE /\ pc' = "svd_config_10"
             /\ load_cached_data(files').ok

\* C12, the SVD caches of the stashed main
C12_SvdConfigStep ==
    \A x \in 1..Len(svd_configs) :
        (variant = "stashed" /\ pc = svd_configs[x].at) =>
            IF load_svd(files, svd_configs[x].path).ok
            THEN pc' = svd_configs[x].then /\ files' = files
            ELSE pc' = svd_configs[x].then /\ load_svd(files', svd_configs[x].path).ok

\* C12: at startup every artefact whose cache exists and loads is loaded and
\* not rebuilt, every artefact whose cache is absent or does not load is
\* rebuilt and saved, and in every case startup goes on with the artefact
\* in memory until the server is started
C12_BuildOrLoad ==
    [][ /\ C12_PreprocessedStep
        /\ C12_SvdStep
        /\ C12_CachedDataStep
        /\ C12_SvdConfigStep ]_vars

\* the same for the stashed main alone
C12_BuildOrLoadStashed == [][C12_CachedDataStep /\ C12_SvdConfigStep]_vars


\* C13: whenever the upstream main has gone past the preprocessed index,
\* having loaded it or built and saved it, loading the files again yields
\* the term -> index map, the inverse map, the idf vector, the documents
\* and the sparse matrix (nrows, ncols, row_offsets, col_indices, values)
\* that main holds
C13_SaveLoadPreprocessed ==
    (variant = "upstream" /\ pc \in {"pre", "serving", "failed"}) =>
        /\ load_preprocessed_data(files).ok
        /\ load_preprocessed_data(files).value = ResidentPreprocessed

\* an index of two terms or more with different idf weights and a non-empty
\* matrix has just been built and saved
C13_Witness ==
    /\ variant = "upstream" /\ pc = "pre"
    /\ df # EmptyMap
    /\ Cardinality(DOMAIN term_dict) >= 2
    /\ \E s, t \in DOMAIN term_dict : idf[term_dict[s]] # idf[term_dict[t]]
    /\ Cardinality(DOMAIN matrix.entries) >= 2
    /\ Len(documents) >= 2


\* C14: whenever the upstream main serves with its SVD artefact, having
\* loaded it or built and saved it, loading the files again yields the
\* rank, sigma and the U, V^T and Dk matrices that main holds, with the same
\* dimensions and the same data, also when the data is longer than one chunk
C14_SaveLoadSvd ==
    (variant = "upstream" /\ pc = "serving") =>
        /\ load_svd_data(files).ok
        /\ load_svd_data(files).value = svd_data

\* the dense matrices that fit in one chunk
FitsInChunk(data) ==
    \A name \in {"u_ser", "vt_ser", "docs_ser"} : Len(data[name].data) <= ChunkSize

\* the same for the artefacts none of whose matrices is longer than a chunk
C14_SaveLoadSvdOneChunk ==
    (variant = "upstream" /\ pc = "serving" /\ FitsInChunk(svd_data)) =>
        /\ load_svd_data(files).ok
        /\ load_svd_data(files).value = svd_data

\* an artefact with a matrix longer than a chunk has been built and saved
C14_ManyChunks ==
    /\ variant = "upstream" /\ pc = "serving"
    /\ ~FitsInChunk(svd_data)
    /\ load_svd_data(files).ok
    /\ load_svd_data(files).value # svd_data


\* the data a dense file holds after its header, when it can be read
DataWritten(content) ==
    IF deserialize_seq(SubSeq(content, 3, Len(content))).ok
    THEN deserialize_seq(SubSeq(content, 3, Len(content))).value
    ELSE << >>

\* C15, one dense file: it loads exactly when nrows and ncols can be read,
\* and what is loaded has nrows * ncols values, those of the file as far as
\* they go and zeros after them
C15_DenseFile(content, loaded) ==
    /\ loaded.ok <=> Len(content) >= 2
    /\ loaded.ok =>
          /\ loaded.value.nrows = content[1] /\ loaded.value.ncols = content[2]
          /\ Len(loaded.value.data) = content[1] * content[2]
          /\ \A x \in 1..(content[1] * content[2]) :
                loaded.value.data[x] =
                    IF x <= Len(DataWritten(content)) THEN DataWritten(content)[x] ELSE 0

C15_WitnessShort ==
    /\ variant = "upstream" /\ pc = "serving" /\ damaged
    /\ \E path \in DensePaths \cap DOMAIN files :
          /\ Len(files[path]) >= 2
          /\ Len(DataWritten(files[path])) < files[path][1] * files[path][2]

-----------------------------------------------------------------------------
(* Search handlers running at once.  actix-web runs a handler for each       *)
(* request; every handler holds its request and its intermediate values in   *)
(* locals and reads the index through the shared AppState.                   *)

\* the corpora of the server under concurrent load: MaxDocs rows with
\* ascending ids
LoadedCorpora ==
    { c \in Corpora : Len(c) = MaxDocs /\ \A x \in 1..(Len(c) - 1) : c[x].id < c[x + 1].id }

InitConcurrent ==
    /\ Init
    /\ documents \in LoadedCorpora
    /\ stop_words = {}

\* the requests sent to the server under concurrent load
ConcurrentRequests ==
    { [query |-> q, method |-> method, limit |-> 2] :
          q \in {QueryCats, TextDogsBark}, method \in {2, 3, 5} }

\* a request arrives and a handler is started for it
ReceiveRequest(h) ==
    /\ pc = "serving"
    /\ handlers[h].pc = "idle"
    /\ \E req \in ConcurrentRequests :
          /\ variant = "stashed" => req.method = 2
          /\ handlers' = [handlers EXCEPT ![h] = Handler("received", req, EmptyMap, NoResponse)]
    /\ UNCHANGED <<main_vars, svd_vars, store_vars, stem_vars, side_vars>>

\* the local query_vec of handler h
handler_query_vec_shared(hs, h) == hs[1].query_vec

handler_query_vec(hs, h) == hs[h].query_vec

\* search_handler, lines 403-409 and 443-445: the method is matched; 2, 3
\* and 4 go on to the search, whose first step is the query vector
HandlerQueryVector(h) ==
    /\ variant = "upstream"
    /\ handlers[h].pc = "received"
    /\ handlers' =
          [handlers EXCEPT ![h] =
              IF @.request.method \in {2, 3, 4}
              THEN Handler("vector", @.request,
                           create_query_vector(@.request.query, term_dict, idf), NoResponse)
              ELSE Handler("done", @.request, EmptyMap,
                           [status |-> "bad_request", results |-> << >>])]
    /\ UNCHANGED <<main_vars, svd_vars, store_vars, stem_vars, side_vars>>

\* the outcome of the search of `method` for a query vector
search_by_method(method, qv, top_k) ==
    IF method = 2 THEN search_tfidf(qv, matrix, top_k)
    ELSE IF method = 3 THEN search_svd(qv, svd_data, top_k)
    ELSE search_with_low_rank(qv, svd_data, SvdRankK, top_k)

\* search_handler, lines 409-462: the scores, the ranking and the response
HandlerSearch(h) ==
    /\ variant = "upstream"
    /\ handlers[h].pc = "vector"
    /\ \E out \in {search_by_method(handlers[h].request.method,
                                    handler_query_vec(handlers, h),
                                    handlers[h].request.limit)} :
          handlers' = [handlers EXCEPT ![h] =
                          Handler("done", @.request, @.query_vec,
                                  [status |-> out.status, results |-> out.results])]
    /\ UNCHANGED <<main_vars, svd_vars, store_vars, stem_vars, side_vars>>

\* the stashed handler, engine::search::search: the query vector
EngineQueryVector(h) ==
    /\ variant = "stashed"
    /\ handlers[h].pc = "received"
    /\ handlers' = [handlers EXCEPT ![h] =
                       Handler("vector", @.request,
                               engine_query_vector(@.request.query, term_dict, idf),
                               NoResponse)]
    /\ UNCHANGED <<main_vars, svd_vars, store_vars, stem_vars, side_vars>>

\* the stashed handler, engine::search::search: CsVec::new, which panics
\* when the indices come out of the HashMap unsorted, the scores and the
\* response
EngineSearchStep(h) ==
    /\ variant = "stashed"
    /\ handlers[h].pc = "vector"
    /\ \E sorted \in BOOLEAN :
       \E out \in {IF sorted
                   THEN engine_search(handler_query_vec(handlers, h), matrix,
                                      handlers[h].request.limit)
                   ELSE Outcome("panic", << >>, << >>)} :
          /\ sorted \/ Cardinality(DOMAIN handler_query_vec(handlers, h)) >= 2
          /\ handlers' = [handlers EXCEPT ![h] =
                             Handler("done", @.request, @.query_vec,
                                     [status |-> out.status, results |-> out.results])]
    /\ UNCHANGED <<main_vars, svd_vars, store_vars, stem_vars, side_vars>>

\* the response is sent and the handler ends
HandlerReturn(h) ==
    /\ handlers[h].pc = "done"
    /\ handlers' = [handlers EXCEPT ![h] = NoHandlers[h]]
    /\ UNCHANGED <<main_vars, svd_vars, store_vars, stem_vars, side_vars>>

NextConcurrent ==
    \/ BuildTermDocumentMatrix
    \/ CalculateIdf
    \/ ApplyIdfWeighting
    \/ NormalizeColumns
    \/ LoadOrPerformSvd
    \/ BuildVocabulary
    \/ TfIdfBuild
    \/ \E h \in 1..MaxHandlers : ReceiveRequest(h)
    \/ \E h \in 1..MaxHandlers : HandlerQueryVector(h)
    \/ \E h \in 1..MaxHandlers : HandlerSearch(h)
    \/ \E h \in 1..MaxHandlers : EngineQueryVector(h)
    \/ \E h \in 1..MaxHandlers : EngineSearchStep(h)
    \/ \E h \in 1..MaxHandlers : HandlerReturn(h)

SpecConcurrent == InitConcurrent /\ [][NextConcurrent]_vars

\* the responses a request can get when it is the only one the server runs
AloneResponses(req) ==
    IF variant = "upstream"
    THEN IF req.method \in {2, 3, 4}
         THEN { [status |-> out.status, results |-> out.results] :
                   out \in {search_by_method(req.method,
                                             create_query_vector(req.query, term_dict, idf),
                                             req.limit)} }
         ELSE { [status |-> "bad_request", results |-> << >>] }
    ELSE { [status |-> out.status, results |-> out.results] :
              out \in {engine_search(engine_query_vector(req.query, term_dict, idf),
                                     matrix, req.limit)} }
         \cup { [status |-> "panic", results |-> << >>] :
                   x \in { y \in {1} :
                             Cardinality(DOMAIN engine_query_vector(req.query, term_dict, idf))
                                 >= 2 } }

\* every handler that has its response has a response the request gets alone
C16_ResponseAsAlone ==
    \A h \in 1..MaxHandlers :
        handlers[h].pc = "done" => handlers[h].response \in AloneResponses(handlers[h].request)

\* a step of a handler leaves the index and the documents as they are
C16_IndexUnchanged ==
    (handlers' # handlers) => UNCHANGED <<documents, index_vars>>

-----------------------------------------------------------------------------
(* The stemmer on its own output *)

\* the longest word given to the stemmer
MaxWordLen == 5

\* the letters of the words given to the stemmer
StemLetters == {"a", "d", "e", "g", "r"}

\* the lower-case words of these letters
StemWords == UNION { [1..n -> StemLetters] : n \in 1..MaxWordLen }

InitStem ==
    /\ variant = "upstream"
    /\ documents = << >>
    /\ stop_words = {}
    /\ MemoryAtStart
    /\ SvdIdle
    /\ files = NoFiles
    /\ damaged = FALSE
    /\ handlers = NoHandlers
    /\ stem_input \in StemWords
    /\ stem_output = << >>
    /\ SideIdle

\* porter_stem is called on the word, and then on what it returned
PorterStem ==
    /\ Len(stem_output) < 2
    /\ stem_output' =
          Append(stem_output,
                 porter_stem(IF stem_output = << >> THEN stem_input
                             ELSE stem_output[Len(stem_output)]))
    /\ UNCHANGED <<main_vars, svd_vars, store_vars, handler_vars, stem_input, side_vars>>

NextStem == PorterStem

SpecStem == InitStem /\ [][NextStem]_vars

\* C17: the stemmer is idempotent on its own output: for every lower-case
\* word x, porter_stem(porter_stem(x)) = porter_stem(x)
C17_StemIdempotent ==
    Len(stem_output) = 2 => stem_output[2] = stem_output[1]

-----------------------------------------------------------------------------
(* Properties of the vocabulary *)

\* C18: the vocabulary main holds when it has built it is the term -> index
\* mapping of every build over the same documents and the same stop words: of the stashed
\* build_vocabulary for every order in which the HashSet yields the terms,
\* and of the upstream first-seen numbering
C18_VocabularyDeterministic ==
    pc \in {"vocabulary", "counted"} =>
        IF variant = "stashed"
        THEN \A order \in HashOrders(vocabulary_terms(documents, stop_words)) :
                build_vocabulary_in(order) = term_dict
        ELSE term_dict = first_seen_dict(documents, stop_words)

\* a stashed vocabulary of three terms or more has been built
C18_Witness ==
    /\ variant = "stashed" /\ pc = "vocabulary"
    /\ Cardinality(DOMAIN term_dict) >= 3


\* the text of a document the indexer of the running variant reads
IndexedText(doc) == IF variant = "upstream" THEN doc.text ELSE full_text(doc)

\* the lower-cased maximal runs of ASCII letters of a text that have three
\* letters or more and are not stop words
LetterRuns(text) ==
    { w \in Range(Runs(ToLowercase(text), "alpha")) : Len(w) >= 3 } \ stop_words

\* C19: every term of the vocabulary is the stem of a lower-cased maximal
\* run of ASCII letters of the corpus text that has at least three letters
\* and is not a stop word; digits only separate, and shorter runs and stop
\* words contribute nothing
C19_TermsFromLetterRuns ==
    pc \in {"vocabulary", "counted"} =>
        DOMAIN term_dict \subseteq
            UNION { { porter_stem(w) : w \in LetterRuns(IndexedText(documents[j])) }
                    : j \in 1..Len(documents) }

\* the same for the upstream indexer alone
C19_TermsFromLetterRunsUpstream == variant = "upstream" => C19_TermsFromLetterRuns

\* the same for the stashed indexer alone
C19_TermsFromLetterRunsStashed == variant = "stashed" => C19_TermsFromLetterRuns

-----------------------------------------------------------------------------
(* Properties of the Lanczos loop *)

\* sparse_svd called by perform_svd
InitLanczos == InitSvd /\ variant = "upstream"

\* sparse_svd up to the eigenvalues of T
NextLanczos ==
    \/ SvdStart
    \/ LanczosStep
    \/ LanczosEarlyTermination
    \/ LanczosDone
    \/ SymmetricEigen

\* the function is sequential: a step that can be taken is taken
SpecLanczos == InitLanczos /\ [][NextLanczos]_vars /\ WF_vars(NextLanczos)

\* m = min(2k, d, max_iter) for the rank asked for
StepsAllowed == Min(Min(2 * k_arg, working_dim), MaxIter)

\* C20, the states: in the loop at most m steps are done; at the eigensolve
\* either all m steps are done, or step i ended the loop and m is i + 1
C20_StepsBounded ==
    variant = "upstream" =>
        /\ svd_pc = "lanczos" => (m_steps = StepsAllowed /\ i_loop <= m_steps)
        /\ svd_pc = "tridiagonal" =>
              \/ (i_loop = StepsAllowed /\ m_steps = StepsAllowed)
              \/ (i_loop < StepsAllowed /\ m_steps = i_loop + 1)

\* C20, the steps: a step whose beta is at least the tolerance goes on to the
\* next one and leaves m; the loop is left after m steps with m as it is, or
\* at the step i whose beta is below the tolerance or not finite, with m
\* made i + 1 and no further step counted
C20_LoopStep ==
    (variant = "upstream" /\ svd_pc = "lanczos") =>
        \/ svd_pc' = "lanczos" /\ i_loop' = i_loop + 1 /\ m_steps' = m_steps
        \/ svd_pc' = "tridiagonal" /\ i_loop = m_steps /\ i_loop' = i_loop
              /\ m_steps' = m_steps
        \/ svd_pc' = "tridiagonal" /\ i_loop < m_steps /\ i_loop' = i_loop
              /\ m_steps' = i_loop + 1

\* C20, the matrix T: the eigensolve works on m values, the size of T
C20_EigenSize ==
    (variant = "upstream" /\ svd_pc = "tridiagonal" /\ svd_pc' # "tridiagonal") =>
        Len(sigma') <= m_steps /\ m_steps' = m_steps

-----------------------------------------------------------------------------
(* The Lanczos loop of sparse_svd, vector by vector (working dimension <= 2) *)

\* the matrices sparse_svd is given here: 0/1 entries in the first two rows
\* and columns
BitMatrices ==
    { <<<<a, b>>, <<c, d>>>> : a \in {0, 1}, b \in {0, 1}, c \in {0, 1}, d \in {0, 1} }

\* q[0] after normalize_mut: a unit vector whose entries have either sign
RandomUnit(dim) ==
    IF dim = 1 THEN { Vec(<<1, 0>>, 1), Vec(<<-1, 0>>, 1) }
    ELSE { Vec(<<1, 0>>, 1), Vec(<<0, 1>>, 1), Vec(<<1, 1>>, 2), Vec(<<1, -1>>, 2),
           Vec(<<-2, 1>>, 5) }

\* the same vector written with the smallest numerators
lowest_terms(v) ==
    IF v.x = <<0, 0>> THEN VZero
    ELSE LET g == Gcd(Abs(v.x[1]), Abs(v.x[2]))
         IN IF v.d2 % (g * g) = 0
            THEN Vec(<<v.x[1] \div g, v.x[2] \div g>>, v.d2 \div (g * g))
            ELSE v

\* v.dot(&q)
dot(v, q) == Surd(VDot(v, q), v.d2 * q.d2)

\* let dot = v.dot(&q); v.axpy(-dot, &q, 1.0): for a unit vector q
\* v - <v, q> q = (q.d2 * v.x - (v.x . q.x) * q.x) / (q.d2 * sqrt(v.d2))
axpy_minus_dot(v, q) ==
    lowest_terms(
        Vec(<<q.d2 * v.x[1] - VDot(v, q) * q.x[1], q.d2 * v.x[2] - VDot(v, q) * q.x[2]>>,
            q.d2 * q.d2 * v.d2))

\* for j in 0..=i { let dot = v.dot(&q[j]); v.axpy(-dot, &q[j], 1.0) }
RECURSIVE reorthogonalize(_, _, _, _)
reorthogonalize(v, q, j, i) ==
    IF j > i THEN v ELSE reorthogonalize(axpy_minus_dot(v, q[j]), q, j + 1, i)

\* the same loop over the vectors before q[i] only
RECURSIVE reorthogonalize_prior(_, _, _, _)
reorthogonalize_prior(v, q, j, i) ==
    IF j >= i THEN v ELSE reorthogonalize_prior(axpy_minus_dot(v, q[j]), q, j + 1, i)

\* lines 44-58: v = M q[i], by matrix_op and transpose_op in the order the
\* shape asks for
apply_m(mat, at_a, qi) ==
    IF at_a THEN transpose_op(mat, matrix_op(mat, qi))
    ELSE matrix_op(mat, transpose_op(mat, qi))

\* lines 60-63: v as the first loop leaves it (q is 1-based here: q[i] of
\* the code is q[i + 1])
v_before_alpha(mat, at_a, q, i) ==
    reorthogonalize(apply_m(mat, at_a, q[i + 1]), q, 1, i + 1)

\* line 65: alpha[i] = v.dot(&q[i])
alpha_at(mat, at_a, q, i) == dot(v_before_alpha(mat, at_a, q, i), q[i + 1])

\* lines 66-77: v.axpy(-alpha[i], &q[i]), then v.axpy(-beta[i], &q[i-1]),
\* then the two passes over q[0..=i].  The multiple of q[i-1] line 69 takes
\* off lies along q[i-1], and the passes leave v nothing along q[0..=i], so v
\* after them is what they leave of v without that multiple.
v_after_passes(mat, at_a, q, i) ==
    reorthogonalize(
        reorthogonalize(axpy_minus_dot(v_before_alpha(mat, at_a, q, i), q[i + 1]), q, 1, i + 1),
        q, 1, i + 1)

\* line 81: beta[i+1] < tolerance.  The entries are integers over a root
\* far below 1 / tolerance^2, so a norm below the tolerance is 0.
beta_below_tolerance(v) == v.x = <<0, 0>>

\* a call of sparse_svd on a matrix whose working dimension is at most 2
InitLanczosVectors ==
    /\ variant = "upstream"
    /\ MainIdle
    /\ svd_pc = "call"
    /\ nrows \in Dims
    /\ ncols \in Dims
    /\ Min(nrows, ncols) <= 2
    /\ k_arg \in Ranks
    /\ a_op \in { Clip(mat, nrows, ncols) : mat \in BitMatrices }
    /\ k_eff = 0 /\ m_steps = 0 /\ i_loop = 0
    /\ sigma = << >>
    /\ recovered = [u |-> << >>, vt |-> << >>]
    /\ u_cols = << >> /\ vt_rows = << >>
    /\ files = NoFiles
    /\ damaged = FALSE
    /\ handlers = NoHandlers
    /\ NoStemming
    /\ SideIdle

\* sparse_svd, lines 21-39: k and m are adjusted, q[0] is a random unit vector
LanczosVectorsStart ==
    /\ variant = "upstream" /\ svd_pc = "call"
    /\ k_eff' = clamp_k(k_arg, working_dim)
    /\ m_steps' = lanczos_steps(clamp_k(k_arg, working_dim), working_dim, MaxIter)
    /\ i_loop' = 0
    /\ svd_pc' = "lanczos"
    /\ \E q0 \in RandomUnit(working_dim) : q_vecs' = <<q0>>
    /\ alpha' = << >>
    /\ UNCHANGED <<main_vars, store_vars, handler_vars, stem_vars, lanczos_rest, a_op, nrows, ncols, k_arg,
                   sigma, recovered, u_cols, vt_rows>>

\* lines 41-87, beta[i+1] at least the tolerance: q[i+1] = v / beta[i+1]
LanczosVectorStep ==
    /\ svd_pc = "lanczos" /\ i_loop < m_steps
    /\ ~beta_below_tolerance(v_after_passes(a_op, work_on_at_a, q_vecs, i_loop))
    /\ alpha' = Append(alpha, alpha_at(a_op, work_on_at_a, q_vecs, i_loop))
    /\ q_vecs' = Append(q_vecs, unit_along(v_after_passes(a_op, work_on_at_a, q_vecs, i_loop).x))
    /\ i_loop' = i_loop + 1
    /\ UNCHANGED <<main_vars, store_vars, handler_vars, stem_vars, lanczos_rest, svd_pc, a_op, nrows, ncols,
                   k_arg, k_eff, m_steps, sigma, recovered, u_cols, vt_rows>>

\* lines 41-85, beta[i+1] below the tolerance: m = i + 1; break
LanczosVectorEarlyTermination ==
    /\ svd_pc = "lanczos" /\ i_loop < m_steps
    /\ beta_below_tolerance(v_after_passes(a_op, work_on_at_a, q_vecs, i_loop))
    /\ alpha' = Append(alpha, alpha_at(a_op, work_on_at_a, q_vecs, i_loop))
    /\ m_steps' = i_loop + 1
    /\ svd_pc' = "tridiagonal"
    /\ UNCHANGED <<main_vars, store_vars, handler_vars, stem_vars, lanczos_rest, q_vecs, a_op, nrows, ncols,
                   k_arg, k_eff, i_loop, sigma, recovered, u_cols, vt_rows>>

NextLanczosVectors ==
    \/ LanczosVectorsStart
    \/ LanczosVectorStep
    \/ LanczosVectorEarlyTermination

SpecLanczosVectors == InitLanczosVectors /\ [][NextLanczosVectors]_vars

\* <M q[i], q[i]>, the Rayleigh quotient of the Lanczos vector q[i]
rayleigh(mat, at_a, qi) == dot(apply_m(mat, at_a, qi), qi)

\* C21: at every Lanczos step i, alpha[i] (the i-th diagonal entry of T) is
\* <M q[i], q[i]>: only the projections onto q[j], j < i, are taken off v
\* before alpha[i] is computed
C21_AlphaIsRayleighQuotient ==
    \A i \in 1..Len(alpha) :
        SurdEq(alpha[i], rayleigh(a_op, work_on_at_a, q_vecs[i]))

\* a step is done on the identity from q[0] = e1: <M q[0], q[0]> = 1, and
\* alpha[0] is 0, the projection onto q[0] itself being taken off first
C21_AlphaLost ==
    /\ Len(alpha) >= 1
    /\ a_op = <<<<1, 0>>, <<0, 1>>>>
    /\ q_vecs[1] = Vec(<<1, 0>>, 1)
    /\ SurdEq(rayleigh(a_op, work_on_at_a, q_vecs[1]), SurdOfInt(1))
    /\ SurdEq(alpha[1], SurdZero)

-----------------------------------------------------------------------------
(* The shape of the latent document coordinates *)

\* SvdData::doc_vectors, the matrix the LSI search reads
doc_vectors(svd) == from_row_slice(svd.docs_ser.nrows, svd.docs_ser.ncols, svd.docs_ser.data)

\* vt[(i, j)] of the vt that perform_svd passed to serialize_matrix
vt_entry(svd, i, j) == svd.vt_ser.data[j * svd.vt_ser.nrows + i + 1]

\* the scores name each document 0..n-1 once, in this order
OneScorePerDocument(scores, n) ==
    /\ Len(scores) = n
    /\ \A x \in 1..n : scores[x].doc = x - 1

\* C22: the latent document coordinates are a k' x N matrix whose column d is
\* Sigma_k * Vt[:, d], and an LSI search returns without a dimension
\* mismatch, with exactly one score per document 0..N-1
C22_LatentDimensionsAgree ==
    (variant = "upstream" /\ pc \in {"serving", "answered"}) =>
        /\ doc_vectors(svd_data).nrows = svd_data.rank
        /\ doc_vectors(svd_data).ncols = Len(documents)
        /\ \A i \in 0..(svd_data.rank - 1) : \A j \in 0..(Len(documents) - 1) :
              doc_vectors(svd_data).e[<<i, j>>] = svd_data.sigma_k[i + 1] * vt_entry(svd_data, i, j)
        /\ (pc = "answered" /\ request.method = 3) =>
              /\ response.status = "ok"
              /\ OneScorePerDocument(similarities, Len(documents))

\* two documents and rank 1: doc_vectors is 2 x 1, the one score there is
\* to compute is the dot product of a 1-vector with a 2-vector, and the
\* handler panics
C22_DimensionMismatch ==
    /\ variant = "upstream" /\ pc = "answered" /\ request.method = 3
    /\ Len(documents) = 2 /\ svd_data.rank = 1
    /\ doc_vectors(svd_data).nrows = 2 /\ doc_vectors(svd_data).ncols = 1
    /\ response.status = "panic"

-----------------------------------------------------------------------------
(* The dense matrices through serialize_matrix and back *)

\* SvdData::u_k
u_k(svd) == from_row_slice(svd.u_ser.nrows, svd.u_ser.ncols, svd.u_ser.data)

\* m and n have the same dimensions and the same element at every (i, j)
SameMatrix(m, n) ==
    /\ m.nrows = n.nrows /\ m.ncols = n.ncols
    /\ \A i \in 0..(m.nrows - 1) : \A j \in 0..(m.ncols - 1) : m.e[<<i, j>>] = n.e[<<i, j>>]

\* the triples (u, sigma, vt) of which perform_svd made the SvdData held
TriplesHeld ==
    { t \in { axis_triple(matrix.nrows, matrix.ncols, r, flip) :
                r \in 1..Min(SvdRankK, Min(matrix.nrows, matrix.ncols)), flip \in BOOLEAN } :
        perform_svd_data(t.u, t.sigma, t.vt) = svd_data }

\* C23: deserialize_matrix(serialize_matrix(m)) has the dimensions of m and
\* the element of m at every (i, j); SvdData::u_k and SvdData::doc_vectors
\* return the U and the document vectors that perform_svd serialized
C23_SerializeRoundTrip ==
    (variant = "upstream" /\ pc = "serving") =>
        \A t \in TriplesHeld :
            /\ SameMatrix(deserialize_matrix(serialize_matrix(t.u)), t.u)
            /\ SameMatrix(u_k(svd_data), t.u)
            /\ doc_vectors(svd_data).nrows = t.vt.ncols
            /\ doc_vectors(svd_data).ncols = Len(t.sigma)
            /\ \A j \in 0..(t.vt.ncols - 1) : \A i \in 0..(Len(t.sigma) - 1) :
                  doc_vectors(svd_data).e[<<j, i>>] = t.sigma[i + 1] * t.vt.e[<<i, j>>]

\* a U of three rows and two columns comes back with the dimensions it had
\* and with other elements
C23_ElementsMoved ==
    /\ variant = "upstream" /\ pc = "serving"
    /\ \E t \in TriplesHeld :
          /\ t.u.nrows = 3 /\ t.u.ncols = 2
          /\ u_k(svd_data).nrows = 3 /\ u_k(svd_data).ncols = 2
          /\ ~SameMatrix(u_k(svd_data), t.u)

-----------------------------------------------------------------------------
(* TfIdfMatrix::low_rank_approximation.  sigma counts units of 10^-10, the
   entries of u and v_t are integers, so a product sigma * u * v counts
   units of 10^-10 as well.                                                 *)

\* if value.abs() > 1e-10, in these units
TripletThreshold == 1

\* the decompositions and matrix sizes the function is called with
SvdInputs ==
    UNION { UNION { UNION {
        [ n_terms : {n_terms}, n_docs : {n_docs}, k : 1..2,
          sigma : [1..len -> {1, 2}],
          u : [0..(n_terms - 1) -> [0..(len - 1) -> {-1, 1}]],
          v_t : [0..(len - 1) -> [0..(n_docs - 1) -> {0, 1}]] ]
        : len \in 1..2 } : n_docs \in 1..2 } : n_terms \in 1..2 }

\* the indices the loop `for i in 0..k` runs over before its break
components(s) == 0..(Min(s.k, Len(s.sigma)) - 1)

\* let value = sigma_i * u_val * v_val
value(s, i, row, col) == s.sigma[i + 1] * s.u[row][i] * s.v_t[i][col]

\* the components for which add_triplet(row, col, value) is called
added(s, row, col) ==
    { i \in components(s) : Abs(value(s, i, row, col)) > TripletThreshold }

\* tri_mat.to_csc(): the stored positions are those of the triplets, and the
\* triplets of one position are summed
to_csc(s) ==
    LET pos == { p \in (0..(s.n_terms - 1)) \X (0..(s.n_docs - 1)) : added(s, p[1], p[2]) # {} }
    IN [p \in pos |->
          SumOver(added(s, p[1], p[2]),
                  [i \in added(s, p[1], p[2]) |-> value(s, i, p[1], p[2])])]

\* the sum of the squares of the stored values of column col
csc_norm_sq(csc, col) ==
    SumOver({ p \in DOMAIN csc : p[2] = col },
            [p \in { q \in DOMAIN csc : q[2] = col } |-> csc[p] * csc[p]])

\* the column loop: a column of norm > 0 is divided by its norm
normalize_csc(csc) ==
    [p \in DOMAIN csc |->
        IF csc_norm_sq(csc, p[2]) > 0 THEN Surd(csc[p], csc_norm_sq(csc, p[2]))
        ELSE SurdOfInt(csc[p])]

low_rank_approximation(s) == [csc |-> to_csc(s), matrix |-> normalize_csc(to_csc(s))]

InitApproximation ==
    /\ variant = "stashed"
    /\ documents = << >>
    /\ stop_words = {}
    /\ MemoryAtStart
    /\ SvdIdle
    /\ files = NoFiles
    /\ damaged = FALSE
    /\ handlers = NoHandlers
    /\ NoStemming
    /\ NoLanczosVectors /\ NoStep /\ NoSave /\ NoParse /\ NoScraper
    /\ svd_in \in SvdInputs
    /\ approx = << >>

\* one call of low_rank_approximation
LowRankApproximation ==
    /\ svd_in # << >> /\ approx = << >>
    /\ approx' = low_rank_approximation(svd_in)
    /\ UNCHANGED <<main_vars, svd_vars, store_vars, handler_vars, stem_vars, approx_rest, svd_in>>

NextApproximation == LowRankApproximation

SpecApproximation == InitApproximation /\ [][NextApproximation]_vars

\* A_k[t, d], the sum over all the components the loop runs over
full_sum(s, row, col) ==
    SumOver(components(s), [i \in components(s) |-> value(s, i, row, col)])

\* C24: the entry (t, d) is stored exactly when |sum_j sigma_j U[t,j] Vt[j,d]|
\* exceeds 1e-10, and the value stored before the column normalisation is
\* that sum: no stored entry is at most 1e-10 in size and no component is
\* left out of an entry
C24_StoredIffSumAboveThreshold ==
    approx # << >> =>
        \A row \in 0..(svd_in.n_terms - 1) : \A col \in 0..(svd_in.n_docs - 1) :
            /\ <<row, col>> \in DOMAIN approx.csc
                   <=> Abs(full_sum(svd_in, row, col)) > TripletThreshold
            /\ <<row, col>> \in DOMAIN approx.csc
                   => approx.csc[<<row, col>>] = full_sum(svd_in, row, col)

\* sigma = (2e-10, 2e-10) with u = (1, -1) in the row and v_t = (1, 1) in
\* the column: both components are added and the entry stored is 0
C24_StoredZero ==
    /\ approx # << >>
    /\ \E p \in DOMAIN approx.csc :
          /\ approx.csc[p] = 0
          /\ Cardinality(added(svd_in, p[1], p[2])) = 2

\* sigma = (2e-10, 1e-10): the second component is left out of an entry
\* whose sum is 3e-10
C24_ComponentDropped ==
    /\ approx # << >>
    /\ \E p \in DOMAIN approx.csc :
          /\ full_sum(svd_in, p[1], p[2]) = 3
          /\ approx.csc[p] = 2

\* sigma = (1e-10, 1e-10): no component is added and nothing is stored where
\* the sum is 2e-10
C24_EntryMissing ==
    /\ approx # << >>
    /\ \E row \in 0..(svd_in.n_terms - 1) : \E col \in 0..(svd_in.n_docs - 1) :
          /\ full_sum(svd_in, row, col) = 2
          /\ <<row, col>> \notin DOMAIN approx.csc

-----------------------------------------------------------------------------
(* Step 4 of the stemmer on its own *)

\* the longest stem put before a suffix
MaxStemLen == 4

StepLetters == {"a", "d", "s", "t"}

\* the words step_4 is given: a stem of these letters, then nothing, a
\* suffix of its list, or "ion"
StepWords ==
    { stem \o suffix :
        stem \in UNION { [1..n -> StepLetters] : n \in 0..MaxStemLen },
        suffix \in Range(Step4Suffixes) \cup { <<"i","o","n">>, << >> } }

InitStep ==
    /\ variant = "upstream"
    /\ documents = << >>
    /\ stop_words = {}
    /\ MemoryAtStart
    /\ SvdIdle
    /\ files = NoFiles
    /\ damaged = FALSE
    /\ handlers = NoHandlers
    /\ NoStemming
    /\ NoLanczosVectors /\ NoApproximation /\ NoSave /\ NoParse /\ NoScraper
    /\ step_word \in StepWords
    /\ step_result = << >>

\* one call of step_4; the result is kept in a one-element list, the word
\* left may be empty
Step4 ==
    /\ step_result = << >>
    /\ step_result' = <<step_4(step_word)>>
    /\ UNCHANGED <<main_vars, svd_vars, store_vars, handler_vars, stem_vars, step_rest, step_word>>

NextStep == Step4

SpecStep == InitStep /\ [][NextStep]_vars

\* step_4 took this suffix off the word
Removed(suffix) ==
    /\ step_result # << >>
    /\ EndsWith(step_word, suffix)
    /\ step_result[1] = DropLast(step_word, Len(suffix))

\* C25: step 4 removes a suffix of its list only from a stem of measure > 1,
\* and removes "ion" only from a stem of measure > 1 that ends in s or t
C25_Step4Conditions ==
    /\ \A x \in 1..Len(Step4Suffixes) :
          Removed(Step4Suffixes[x]) => measure(step_result[1]) > 1
    /\ Removed(<<"i","o","n">>) =>
          /\ measure(step_result[1]) > 1
          /\ EndsWith(step_result[1], <<"s">>) \/ EndsWith(step_result[1], <<"t">>)

\* the first half of C25 alone: the suffixes of the list
C25_ListedSuffixes ==
    \A x \in 1..Len(Step4Suffixes) :
        Removed(Step4Suffixes[x]) => measure(step_result[1]) > 1

\* "asion": the stem "as" has measure 1 and step_4 leaves "as"
C25_IonAfterS ==
    /\ step_word = <<"a","s","i","o","n">>
    /\ step_result = << <<"a","s">> >>
    /\ measure(<<"a","s">>) = 1

-----------------------------------------------------------------------------
(* The saves of main write by write, with the process ending in between    *)

\* how many saves are interrupted at most
MaxInterrupts == 2

\* "cat"; "cat" and "dog"
SaveCorpora ==
    { << Document(1, << >>, <<"c","a","t">>) >>,
      << Document(1, << >>, <<"c","a","t">>), Document(2, << >>, <<"d","o","g">>) >> }

\* main, lines 496-509: the struct PreprocessedData of a corpus
built_from_idf(docs, dict, coo, w) ==
    PreprocessedData(dict, InverseOf(dict), w, docs,
                     from_csr(normalize_columns(apply_idf_weighting(coo, w))))

built_from_coo(docs, dict, coo) == built_from_idf(docs, dict, coo, calculate_idf(coo))

built_from_dict(docs, sw, dict) == built_from_coo(docs, dict, count_matrix(docs, sw, dict))

built_preprocessed(docs, sw) == built_from_dict(docs, sw, first_seen_dict(docs, sw))

\* the index file first, then the component files
preprocessed_order_index_first ==
    <<preproc_index, PreprocPaths.dict, PreprocPaths.docs, PreprocPaths.matrix>>

\* save_preprocessed_data: the files in the order of their File::create
preprocessed_order ==
    <<PreprocPaths.dict, PreprocPaths.docs, PreprocPaths.matrix, preproc_index>>

\* save_svd_data: the files in the order of their File::create
svd_order == <<SvdPaths.meta, SvdPaths.u, SvdPaths.vt, SvdPaths.docs, svd_index>>

\* a save that has not begun: the files in order, each with the content
\* the save gives it; `written` is -1 before File::create of the file
SavePlan(order, target) ==
    [order |-> order, target |-> target, file |-> 1, written |-> -1]

\* the file the save is at
current_file(sv) == sv.order[sv.file]

InitSave ==
    /\ variant = "upstream"
    /\ documents \in SaveCorpora
    /\ stop_words = {}
    /\ MemoryAtStart
    /\ SvdIdle
    /\ files = NoFiles
    /\ damaged = FALSE
    /\ handlers = NoHandlers
    /\ NoStemming
    /\ SideIdle

\* main, lines 494-509: no preprocessed.idx, the index is built;
\* save_preprocessed_data is entered
BuildPreprocessedData ==
    /\ variant = "upstream" /\ pc = "start"
    /\ preproc_index \notin DOMAIN files
    /\ \E pre \in {built_preprocessed(documents, stop_words)} :
          /\ term_dict' = pre.term_dict
          /\ inverse_term_dict' = pre.inverse_term_dict
          /\ df' = EmptyMap
          /\ idf' = pre.idf
          /\ matrix' = to_csr(pre.term_doc_csr)
          /\ saving' = SavePlan(preprocessed_order, save_preprocessed_data(pre, NoFiles))
    /\ pc' = "save_pre"
    /\ UNCHANGED <<variant, documents, stop_words, svd_data, request, query_vec, similarities,
                   response, svd_vars, store_vars, handler_vars, stem_vars, save_rest, interrupts>>

\* main, lines 520-524: no svd_k25.idx, perform_svd returns a triple of rank
\* k'; save_svd_data is entered
PerformSvd ==
    /\ variant = "upstream" /\ pc = "pre"
    /\ svd_index \notin DOMAIN files
    /\ HasNonZero(matrix)
    /\ \E r \in 1..Min(SvdRankK, Min(matrix.nrows, matrix.ncols)), flip \in BOOLEAN :
          \E t \in {axis_triple(matrix.nrows, matrix.ncols, r, flip)} :
          \E svd \in {perform_svd_data(t.u, t.sigma, t.vt)} :
             /\ svd_data' = svd
             /\ saving' = SavePlan(svd_order, save_svd_data(svd, NoFiles))
    /\ pc' = "save_svd"
    /\ UNCHANGED <<variant, documents, stop_words, term_dict, inverse_term_dict, df, idf, matrix,
                   request, query_vec, similarities, response, svd_vars, store_vars,
                   handler_vars, stem_vars, save_rest, interrupts>>

\* File::create of the next file of the save: the file exists and is empty
SaveCreate ==
    /\ pc \in {"save_pre", "save_svd"}
    /\ saving.written = -1
    /\ files' = WriteFile(files, current_file(saving), << >>)
    /\ saving' = [saving EXCEPT !.written = 0]
    /\ UNCHANGED <<main_vars, svd_vars, damaged, handler_vars, stem_vars, save_rest, interrupts>>

\* one more value reaches the file (serialize_into on the File, or the
\* BufWriter passing on what it holds, at the latest in flush)
SaveWrite ==
    /\ pc \in {"save_pre", "save_svd"}
    /\ saving.written >= 0
    /\ saving.written + 1 < Len(saving.target[current_file(saving)])
    /\ files' = WriteFile(files, current_file(saving),
                          SubSeq(saving.target[current_file(saving)], 1, saving.written + 1))
    /\ saving' = [saving EXCEPT !.written = @ + 1]
    /\ UNCHANGED <<main_vars, svd_vars, damaged, handler_vars, stem_vars, save_rest, interrupts>>

\* the last value of a file that is not the last file: the save goes on to
\* the next File::create
SaveFileDone ==
    /\ pc \in {"save_pre", "save_svd"}
    /\ saving.written >= 0
    /\ saving.written + 1 = Len(saving.target[current_file(saving)])
    /\ saving.file < Len(saving.order)
    /\ files' = WriteFile(files, current_file(saving), saving.target[current_file(saving)])
    /\ saving' = [saving EXCEPT !.file = @ + 1, !.written = -1]
    /\ UNCHANGED <<main_vars, svd_vars, damaged, handler_vars, stem_vars, save_rest, interrupts>>

\* the last value of the last file: the save returns Ok and main goes on
SaveDone ==
    /\ pc \in {"save_pre", "save_svd"}
    /\ saving.written >= 0
    /\ saving.written + 1 = Len(saving.target[current_file(saving)])
    /\ saving.file = Len(saving.order)
    /\ files' = WriteFile(files, current_file(saving), saving.target[current_file(saving)])
    /\ saving' = << >>
    /\ pc' = IF pc = "save_pre" THEN "pre" ELSE "serving"
    /\ UNCHANGED <<variant, documents, stop_words, index_vars, request, query_vec, similarities,
                   response, svd_vars, damaged, handler_vars, stem_vars, save_rest, interrupts>>

\* the process ends in the middle of a save and the program is started
\* again; the files are as the writes left them
Interrupt ==
    /\ pc \in {"save_pre", "save_svd"}
    /\ interrupts < MaxInterrupts
    /\ StartProcess
    /\ saving' = << >>
    /\ interrupts' = interrupts + 1
    /\ UNCHANGED <<variant, documents, stop_words, svd_vars, store_vars, handler_vars, stem_vars,
                   save_rest>>

NextSave ==
    \/ LoadPreprocessedData
    \/ LoadPreprocessedDataErr
    \/ BuildPreprocessedData
    \/ LoadSvdData
    \/ LoadSvdDataErr
    \/ PerformSvd
    \/ PerformSvdErr
    \/ SaveCreate
    \/ SaveWrite
    \/ SaveFileDone
    \/ SaveDone
    \/ Interrupt
    \/ Restart

SpecSave == InitSave /\ [][NextSave]_vars

\* the files a save of the index of this corpus writes, each complete
complete_preprocessed ==
    save_preprocessed_data(built_preprocessed(documents, stop_words), NoFiles)

\* the files a save of an SVD artefact of this corpus writes, for every
\* decomposition perform_svd may return
complete_svds ==
    { save_svd_data(perform_svd_data(t.u, t.sigma, t.vt), NoFiles) :
        t \in { axis_triple(Cardinality(DOMAIN first_seen_dict(documents, stop_words)),
                            Len(documents), r, flip) :
                  r \in 1..Min(Cardinality(DOMAIN first_seen_dict(documents, stop_words)),
                               Len(documents)),
                  flip \in BOOLEAN } }

\* every file of `names` is there and holds all that `target` gives it
CompleteIn(fs, names, target) ==
    \A x \in 1..Len(names) : names[x] \in DOMAIN fs /\ fs[names[x]] = target[names[x]]

\* the files the index file of save_preprocessed_data names
preprocessed_components == <<PreprocPaths.dict, PreprocPaths.docs, PreprocPaths.matrix>>

\* the files the index file of save_svd_data names
svd_components == <<SvdPaths.meta, SvdPaths.u, SvdPaths.vt, SvdPaths.docs>>

\* the component files of the index are complete
PreprocessedComplete == CompleteIn(files, preprocessed_components, complete_preprocessed)

\* the component files of the SVD artefact are complete, all of one save
SvdComplete ==
    \E target \in complete_svds : CompleteIn(files, svd_components, target)

\* C26, the states: while an index file exists, every component file it
\* names is complete
C26_IndexOverCompleteFiles ==
    /\ preproc_index \in DOMAIN files => PreprocessedComplete
    /\ svd_index \in DOMAIN files => SvdComplete

\* C26, the steps: an index file is created only when every component file
\* is complete, and a load that succeeds has read complete files only
C26_Steps ==
    /\ (preproc_index \notin DOMAIN files /\ preproc_index \in DOMAIN files')
           => PreprocessedComplete
    /\ (svd_index \notin DOMAIN files /\ svd_index \in DOMAIN files') => SvdComplete
    /\ (pc = "start" /\ pc' = "pre" /\ files' = files)
           => CompleteIn(files, <<preproc_index>> \o preprocessed_components,
                         complete_preprocessed)
    /\ (pc = "pre" /\ pc' = "serving" /\ files' = files)
           => \E target \in complete_svds :
                  CompleteIn(files, <<svd_index>> \o svd_components, target)

\* C26: no index file exists at first; saves are interrupted at any write.
\* An index file is created only after all its component files are written
\* in full, so either the index file does not exist or every component file
\* is complete, and main never loads a file written in part
C26_InterruptedSave == [](C26_IndexOverCompleteFiles) /\ [][C26_Steps]_vars

\* a save of the SVD artefact was interrupted in the U file: main starts
\* again, the index exists over complete files, and of the SVD artefact
\* there is a part of the U file and no index file
C26_Witness ==
    /\ interrupts >= 1 /\ pc = "start"
    /\ preproc_index \in DOMAIN files /\ PreprocessedComplete
    /\ svd_index \notin DOMAIN files
    /\ SvdPaths.u \in DOMAIN files
    /\ \A target \in complete_svds : files[SvdPaths.u] # target[SvdPaths.u]

\* an index file written in part: main finds it and the load fails
C26_PartialIndex ==
    /\ interrupts >= 1 /\ pc = "load_failed"
    /\ preproc_index \in DOMAIN files
    /\ files[preproc_index] # complete_preprocessed[preproc_index]

-----------------------------------------------------------------------------
(* The singular values kept and the eigenpairs behind them *)

\* the eigenvalue lists symmetric_eigen may give for the present T
EigenvalueLists == [1..m_steps -> Lambdas]

\* lines 105-117: the indices, of the first k sorted ones, whose sigma
\* passes the filter s > tolerance, in the order of sigma
sigma_indices(eigenvalues, k_in) ==
    SelectSeq(SubSeq(sort_indices(eigenvalues), 1, Min(k_in, Len(eigenvalues))),
              LAMBDA x : sigma_of_lambda(eigenvalues[x]) > 1)

\* line 129: indices.iter().take(actual_k), the eigenvectors behind the
\* columns of u and the rows of vt
vector_indices(eigenvalues, actual_k) == SubSeq(sort_indices(eigenvalues), 1, actual_k)

\* the eigenvalues in the order of the sorted indices
sorted_eigenvalues(eigenvalues) ==
    [x \in 1..Len(eigenvalues) |-> eigenvalues[sort_indices(eigenvalues)[x]]]

\* C27: whatever eigenvalues the solver gives, the singular values that
\* pass the filter are those of the first k' entries of the descending list
\* (the filter cuts a suffix only), so sigma[j], column j of u and row j of
\* vt come from the same eigenpair for every j < k'
C27_SurvivorsArePrefix ==
    (variant = "upstream" /\ svd_pc = "tridiagonal") =>
        \A eigenvalues \in EigenvalueLists :
            /\ \A x \in 1..(m_steps - 1) :
                  sorted_eigenvalues(eigenvalues)[x] >= sorted_eigenvalues(eigenvalues)[x + 1]
            /\ sigma_indices(eigenvalues, k_eff)
                   = vector_indices(eigenvalues, Len(sigma_of(eigenvalues, k_eff)))
            /\ \A j \in 1..Len(sigma_of(eigenvalues, k_eff)) :
                  sigma_of(eigenvalues, k_eff)[j]
                      = sigma_of_lambda(sorted_eigenvalues(eigenvalues)[j])

\* the eigensolve is done, two values were taken and the filter cut the
\* second: one singular value is left
C27_Witness ==
    /\ variant = "upstream" /\ svd_pc = "recover"
    /\ k_eff >= 2 /\ m_steps >= 2
    /\ Len(sigma) = 1

-----------------------------------------------------------------------------
(* The absolute value in engine::search::search *)

\* the scores of engine::search::search without .abs(): the signed dot
\* product of the query vector and every column
engine_search_signed(qv, m, k) ==
    LET score(j) ==
            LET ps == { p \in ColEntries(m, j) : p[1] \in DOMAIN qv }
            IN SurdSum(ps, [p \in ps |-> SurdMul(qv[p[1]], m.entries[p])])
    IN ranked([x \in 1..m.ncols |-> Scored(x - 1, score(x - 1))], k)

-----------------------------------------------------------------------------
(* document::parser::parse_cisi_documents *)

\* the longest input, in lines
MaxLines == 4

\* the lines of the input: ".I 1", ".I 2", ".I", ".T", ".A", ".W", "a", " b"
CisiLinePool ==
    { <<".","I"," ","1">>, <<".","I"," ","2">>, <<".","I">>, <<".","T">>, <<".","A">>,
      <<".","W">>, <<"a">>, <<" ","b">> }

CisiInputs == UNION { [1..n -> CisiLinePool] : n \in 0..MaxLines }

\* str::trim: the white space at both ends is taken off
trim(s) ==
    LET idx == { i \in 1..Len(s) : s[i] \notin {" ", "\n"} }
    IN IF idx = {} THEN << >>
       ELSE SubSeq(s, CHOOSE i \in idx : \A j \in idx : i <= j,
                      CHOOSE i \in idx : \A j \in idx : i >= j)

\* str::starts_with
starts_with(s, prefix) == Len(s) >= Len(prefix) /\ SubSeq(s, 1, Len(prefix)) = prefix

CisiDocument(id, title, text, authors) ==
    [id |-> id, title |-> title, text |-> text, authors |-> authors]

\* the locals of parse_cisi_documents
ParserState(docs, id, title, text, authors, section) ==
    [documents |-> docs, current_id |-> id, current_title |-> title, current_text |-> text,
     current_authors |-> authors, section |-> section]

\* lines 20-34: a line that starts with ".I"
on_id_line(st, line) ==
    IF st.current_id # << >>
    THEN ParserState(Append(st.documents,
                            CisiDocument(st.current_id, trim(st.current_title),
                                         trim(st.current_text), st.current_authors)),
                     trim(SubSeq(line, 3, Len(line))), << >>, << >>, << >>, "")
    ELSE ParserState(st.documents, trim(SubSeq(line, 3, Len(line))), st.current_title,
                     st.current_text, st.current_authors, "")

\* lines 41-56: a line that is no marker
on_text_line(st, line) ==
    IF st.section = "T" THEN [st EXCEPT !.current_title = @ \o line \o <<"\n">>]
    ELSE IF st.section = "A" THEN [st EXCEPT !.current_authors = Append(@, line)]
    ELSE IF st.section = "W" THEN [st EXCEPT !.current_text = @ \o line \o <<"\n">>]
    ELSE st

\* lines 18-57: the body of the loop, for the trimmed line
on_line(st, line) ==
    IF starts_with(line, <<".","I">>) THEN on_id_line(st, line)
    ELSE IF starts_with(line, <<".","T">>) THEN [st EXCEPT !.section = "T"]
    ELSE IF starts_with(line, <<".","A">>) THEN [st EXCEPT !.section = "A"]
    ELSE IF starts_with(line, <<".","W">>) THEN [st EXCEPT !.section = "W"]
    ELSE on_text_line(st, line)

RECURSIVE parse_lines(_, _, _)
parse_lines(lines, x, st) ==
    IF x > Len(lines) THEN st ELSE parse_lines(lines, x + 1, on_line(st, trim(lines[x])))

\* lines 59-69: the last document is added when its id is not empty
add_last(st) ==
    IF st.current_id # << >>
    THEN Append(st.documents,
                CisiDocument(st.current_id, trim(st.current_title), trim(st.current_text),
                             st.current_authors))
    ELSE st.documents

parse_cisi_documents(lines) ==
    add_last(parse_lines(lines, 1, ParserState(<< >>, << >>, << >>, << >>, << >>, "")))

InitParser ==
    /\ variant = "upstream"
    /\ documents = << >>
    /\ stop_words = {}
    /\ MemoryAtStart
    /\ SvdIdle
    /\ files = NoFiles
    /\ damaged = FALSE
    /\ handlers = NoHandlers
    /\ NoStemming
    /\ NoLanczosVectors /\ NoApproximation /\ NoStep /\ NoSave /\ NoScraper
    /\ cisi_lines \in CisiInputs
    /\ parsed = << >>

\* one call of parse_cisi_documents; the result is kept in a one-element list
ParseCisiDocuments ==
    /\ parsed = << >>
    /\ parsed' = <<parse_cisi_documents(cisi_lines)>>
    /\ UNCHANGED <<main_vars, svd_vars, store_vars, handler_vars, stem_vars, parser_rest,
                   cisi_lines>>

NextParser == ParseCisiDocuments

SpecParser == InitParser /\ [][NextParser]_vars

\* the positions of the ".I" lines of the input
IdLines(lines) == { x \in 1..Len(lines) : starts_with(trim(lines[x]), <<".","I">>) }

\* the x-th ".I" line, counted from 1
NthIdLine(lines, n) ==
    CHOOSE x \in IdLines(lines) : Cardinality({ y \in IdLines(lines) : y <= x }) = n

\* the last line of the record that begins at the ".I" line x
RecordEnd(lines, x) ==
    IF \E y \in IdLines(lines) : y > x
    THEN (CHOOSE y \in IdLines(lines) : y > x /\ \A z \in IdLines(lines) : z > x => y <= z) - 1
    ELSE Len(lines)

IsMarker(line) ==
    \E c \in {"I", "T", "A", "W"} : starts_with(trim(line), <<".", c>>)

\* the lines of the record at x, in order, that are no markers and whose
\* last marker before them in the record is the marker `.c`
SectionLines(lines, x, c) ==
    SelectSeq([y \in 1..(RecordEnd(lines, x) - x) |-> x + y],
              LAMBDA y :
                  /\ ~IsMarker(lines[y])
                  /\ \E z \in (x + 1)..(y - 1) :
                        /\ starts_with(trim(lines[z]), <<".", c>>)
                        /\ \A w \in (z + 1)..(y - 1) : ~IsMarker(lines[w]))

RECURSIVE JoinLines(_, _)
JoinLines(lines, positions) ==
    IF positions = << >> THEN << >>
    ELSE trim(lines[Head(positions)]) \o <<"\n">> \o JoinLines(lines, Tail(positions))

\* the document of the record that begins at the ".I" line x
RecordDocument(lines, x) ==
    CisiDocument(trim(SubSeq(trim(lines[x]), 3, Len(trim(lines[x])))),
                 trim(JoinLines(lines, SectionLines(lines, x, "T"))),
                 trim(JoinLines(lines, SectionLines(lines, x, "W"))),
                 [a \in 1..Len(SectionLines(lines, x, "A")) |->
                     trim(lines[SectionLines(lines, x, "A")[a]])])

\* C29: one document per ".I" line, in the order of the input, and the
\* title, the authors and the text of a document are the lines after its own
\* .T, .A and .W markers and before the next ".I" line: nothing of another
\* record; for every input, an empty id and missing sections included
C29_OneDocumentPerRecord ==
    parsed # << >> =>
        /\ Len(parsed[1]) = Cardinality(IdLines(cisi_lines))
        /\ \A n \in 1..Len(parsed[1]) :
              n <= Cardinality(IdLines(cisi_lines))
                  => parsed[1][n] = RecordDocument(cisi_lines, NthIdLine(cisi_lines, n))

\* the same for the inputs that begin with an ".I" line and whose ".I"
\* lines all carry an id
C29_WhenIdsPresent ==
    (/\ parsed # << >>
     /\ cisi_lines # << >> => 1 \in IdLines(cisi_lines)
     /\ \A x \in IdLines(cisi_lines) : Len(trim(cisi_lines[x])) > 2)
        => C29_OneDocumentPerRecord

\* ".I", ".T", "a", ".I 2": one document, with the id 2 and the title "a"
\* of the record before it
C29_Leak ==
    /\ cisi_lines = << <<".","I">>, <<".","T">>, <<"a">>, <<".","I"," ","2">> >>
    /\ parsed = << << CisiDocument(<<"2">>, <<"a">>, << >>, << >>) >> >>

-----------------------------------------------------------------------------
(* Frotend/src/scraper.rs: main, the tasks, the semaphore and the counters *)

\* the urls Special:Random leads to: one, so that two tasks can meet on it
Urls == {"u1"}

\* what scrape_random_article returns: Err, Ok(None), Ok(Some(article))
ScrapeResults == {"error", "none"} \cup Urls

\* the places of a task at which it owns a permit
HoldingPlaces ==
    {"scrape", "save", "increment_saved", "increment_completed", "print_progress", "drop"}

InitScraper ==
    /\ variant = "upstream"
    /\ documents = << >>
    /\ stop_words = {}
    /\ MemoryAtStart
    /\ SvdIdle
    /\ files = NoFiles
    /\ damaged = FALSE
    /\ handlers = NoHandlers
    /\ NoStemming
    /\ NoLanczosVectors /\ NoApproximation /\ NoStep /\ NoSave /\ NoParse
    /\ ScraperAtStart
    /\ articles = {}

scraper_unchanged ==
    UNCHANGED <<main_vars, svd_vars, store_vars, handler_vars, stem_vars, scraper_rest>>

\* tokio::spawn in the loop of main; the loop ends after NUM_ARTICLES tasks
Spawn ==
    /\ main_pc = "spawning"
    /\ spawned < NUM_ARTICLES
    /\ spawned' = spawned + 1
    /\ task_pc' = [task_pc EXCEPT ![spawned + 1] = "acquire"]
    /\ main_pc' = IF spawned + 1 = NUM_ARTICLES THEN "joining" ELSE "spawning"
    /\ UNCHANGED <<task_article, saved_this_task, permits, waiters, holders, acquired, counted,
                   completed, saved, articles, articles_saved_count>>
    /\ scraper_unchanged

\* semaphore_clone.acquire_owned().await with a permit left
AcquireOwned(t) ==
    /\ task_pc[t] = "acquire"
    /\ permits > 0
    /\ permits' = permits - 1
    /\ holders' = holders \cup {t}
    /\ acquired' = [acquired EXCEPT ![t] = @ + 1]
    /\ task_pc' = [task_pc EXCEPT ![t] = "scrape"]
    /\ UNCHANGED <<main_pc, spawned, task_article, saved_this_task, waiters, counted,
                   completed, saved, articles, articles_saved_count>>
    /\ scraper_unchanged

\* semaphore_clone.acquire_owned().await with no permit left: the task
\* joins the queue of the semaphore
AcquireWait(t) ==
    /\ task_pc[t] = "acquire"
    /\ permits = 0
    /\ waiters' = Append(waiters, t)
    /\ task_pc' = [task_pc EXCEPT ![t] = "waiting"]
    /\ UNCHANGED <<main_pc, spawned, task_article, saved_this_task, permits, holders, acquired,
                   counted, completed, saved, articles, articles_saved_count>>
    /\ scraper_unchanged

\* the place of a task after the inner async block (lines 184-191)
after_scrape_early_return(result) ==
    IF result \in Urls THEN "save" ELSE IF result = "none" THEN "increment_completed" ELSE "done"

\* the place of a task after the inner async block (lines 184-191): the ?
\* of line 185 leaves the block, not the task
after_scrape(result) ==
    IF result \in Urls THEN "save" ELSE "increment_completed"

\* scrape_random_article, the sleep, and the match on the result
Scrape(t) ==
    /\ task_pc[t] = "scrape"
    /\ \E result \in ScrapeResults :
          /\ task_article' = [task_article EXCEPT ![t] = result]
          /\ task_pc' = [task_pc EXCEPT ![t] = after_scrape(result)]
    /\ UNCHANGED <<main_pc, spawned, saved_this_task, permits, waiters, holders, acquired,
                   counted, completed, saved, articles, articles_saved_count>>
    /\ scraper_unchanged

\* save_article returns Ok(true): INSERT OR IGNORE added a row
SaveArticleInserted(t) ==
    /\ task_pc[t] = "save"
    /\ task_article[t] \notin articles
    /\ articles' = articles \cup {task_article[t]}
    /\ saved_this_task' = [saved_this_task EXCEPT ![t] = TRUE]
    /\ task_pc' = [task_pc EXCEPT ![t] = "increment_saved"]
    /\ UNCHANGED <<main_pc, spawned, task_article, permits, waiters, holders, acquired, counted,
                   completed, saved, articles_saved_count>>
    /\ scraper_unchanged

\* save_article returns Ok(false): the url is in the table already
SaveArticleIgnored(t) ==
    /\ task_pc[t] = "save"
    /\ task_article[t] \in articles
    /\ task_pc' = [task_pc EXCEPT ![t] = "increment_completed"]
    /\ UNCHANGED <<main_pc, spawned, task_article, saved_this_task, permits, waiters, holders,
                   acquired, counted, completed, saved, articles, articles_saved_count>>
    /\ scraper_unchanged

\* save_article returns Err
SaveArticleError(t) ==
    /\ task_pc[t] = "save"
    /\ task_pc' = [task_pc EXCEPT ![t] = "increment_completed"]
    /\ UNCHANGED <<main_pc, spawned, task_article, saved_this_task, permits, waiters, holders,
                   acquired, counted, completed, saved, articles, articles_saved_count>>
    /\ scraper_unchanged

\* ProgressCounter::increment_saved, under the lock of saved
IncrementSaved(t) ==
    /\ task_pc[t] = "increment_saved"
    /\ saved' = saved + 1
    /\ task_pc' = [task_pc EXCEPT ![t] = "increment_completed"]
    /\ UNCHANGED <<main_pc, spawned, task_article, saved_this_task, permits, waiters, holders,
                   acquired, counted, completed, articles, articles_saved_count>>
    /\ scraper_unchanged

\* ProgressCounter::increment_completed, under the lock of completed
IncrementCompleted(t) ==
    /\ task_pc[t] = "increment_completed"
    /\ completed' = completed + 1
    /\ counted' = [counted EXCEPT ![t] = @ + 1]
    /\ task_pc' = [task_pc EXCEPT ![t] = "print_progress"]
    /\ UNCHANGED <<main_pc, spawned, task_article, saved_this_task, permits, waiters, holders,
                   acquired, saved, articles, articles_saved_count>>
    /\ scraper_unchanged

\* ProgressCounter::print_progress: reads saved, changes nothing
PrintProgress(t) ==
    /\ task_pc[t] = "print_progress"
    /\ task_pc' = [task_pc EXCEPT ![t] = "drop"]
    /\ UNCHANGED <<main_pc, spawned, task_article, saved_this_task, permits, waiters, holders,
                   acquired, counted, completed, saved, articles, articles_saved_count>>
    /\ scraper_unchanged

\* drop(permit) with no task waiting: the permit goes back to the semaphore
DropPermit(t) ==
    /\ task_pc[t] = "drop"
    /\ waiters = << >>
    /\ permits' = permits + 1
    /\ holders' = holders \ {t}
    /\ task_pc' = [task_pc EXCEPT ![t] = "done"]
    /\ UNCHANGED <<main_pc, spawned, task_article, saved_this_task, waiters, acquired, counted,
                   completed, saved, articles, articles_saved_count>>
    /\ scraper_unchanged

\* drop(permit) with tasks waiting: the permit goes to the oldest of them
DropPermitToWaiter(t) ==
    /\ task_pc[t] = "drop"
    /\ waiters # << >>
    /\ waiters' = Tail(waiters)
    /\ holders' = (holders \ {t}) \cup {Head(waiters)}
    /\ acquired' = [acquired EXCEPT ![Head(waiters)] = @ + 1]
    /\ task_pc' = [task_pc EXCEPT ![t] = "done", ![Head(waiters)] = "scrape"]
    /\ UNCHANGED <<main_pc, spawned, task_article, saved_this_task, permits, counted, completed,
                   saved, articles, articles_saved_count>>
    /\ scraper_unchanged

\* join_all(tasks).await and the count of the results
JoinAll ==
    /\ main_pc = "joining"
    /\ \A t \in Tasks : task_pc[t] = "done"
    /\ articles_saved_count' = Cardinality({ t \in Tasks : saved_this_task[t] })
    /\ main_pc' = "done"
    /\ UNCHANGED <<spawned, task_pc, task_article, saved_this_task, permits, waiters, holders,
                   acquired, counted, completed, saved, articles>>
    /\ scraper_unchanged

\* one step of the task t
TaskStep(t) ==
    \/ AcquireOwned(t)
    \/ AcquireWait(t)
    \/ Scrape(t)
    \/ SaveArticleInserted(t)
    \/ SaveArticleIgnored(t)
    \/ SaveArticleError(t)
    \/ IncrementSaved(t)
    \/ IncrementCompleted(t)
    \/ PrintProgress(t)
    \/ DropPermit(t)
    \/ DropPermitToWaiter(t)

NextScraper ==
    \/ Spawn
    \/ \E t \in Tasks : TaskStep(t)
    \/ JoinAll

\* the runtime goes on polling every task that can go on, and main
SpecScraper ==
    /\ InitScraper
    /\ [][NextScraper]_vars
    /\ WF_vars(Spawn)
    /\ WF_vars(JoinAll)
    /\ \A t \in Tasks : WF_vars(TaskStep(t))

\* in every state: the permits given out and the permits left add up to
\* CONCURRENT_REQUESTS; a task owns a permit exactly from its acquire to
\* its drop, scrape and save included, and was given one permit at most;
\* a task that ended was given one permit, gave it back, and incremented
\* completed once; completed counts the increments; at the end of main
\* completed is NUM_ARTICLES and saved is not above it
C30_Safety ==
    /\ Cardinality(holders) <= CONCURRENT_REQUESTS
    /\ permits + Cardinality(holders) = CONCURRENT_REQUESTS
    /\ \A t \in Tasks :
          /\ t \in holders <=> task_pc[t] \in HoldingPlaces
          /\ acquired[t] = IF task_pc[t] \in HoldingPlaces \cup {"done"} THEN 1 ELSE 0
          /\ counted[t] = IF task_pc[t] \in {"print_progress", "drop", "done"} THEN 1 ELSE 0
    /\ completed = Cardinality({ t \in Tasks : counted[t] = 1 })
    /\ main_pc = "done" => completed = NUM_ARTICLES /\ saved <= completed

\* a task in the queue of the semaphore leaves it, and main ends
C30_Progress ==
    /\ \A t \in Tasks : (task_pc[t] = "waiting") ~> (task_pc[t] # "waiting")
    /\ <>(main_pc = "done")

\* C30: at most CONCURRENT_REQUESTS tasks are between acquiring and
\* releasing a permit; every task acquires exactly one permit, holds it
\* across its scrape and save and releases it on every outcome, so no task
\* waits forever; completed is incremented exactly once per task and ends
\* equal to NUM_ARTICLES with saved <= completed
C30_PermitsAndCounters == []C30_Safety /\ C30_Progress

\* all permits out, a task waiting, a task ended, an article saved
C30_Witness ==
    /\ Cardinality(holders) = CONCURRENT_REQUESTS
    /\ waiters # << >>
    /\ \E t \in Tasks : task_pc[t] = "done" /\ saved_this_task[t]
    /\ completed >= 1

\* main ended with every outcome among the tasks
C30_AllOutcomes ==
    /\ main_pc = "done"
    /\ \E t \in Tasks : task_article[t] = "error"
    /\ \E t \in Tasks : task_article[t] = "none"
    /\ \E t \in Tasks : saved_this_task[t]
    /\ \E t \in Tasks : task_article[t] \in Urls /\ ~saved_this_task[t]

\* before the end saved may be ahead of completed
C30_SavedAhead == saved > completed

====
